---- MODULE Spec2Model ----
(***************************************************************************)
(* Multiple Wave Tracking: the Wave object (wave_objects.cpp), the         *)
(* tracking routines (tracking.cpp), the contour filter (detection.cpp)    *)
(* and the per-frame loop of main().                                       *)
(*                                                                         *)
(* Representation.  A cv::Point is <<x, y>>.  A pixel list                 *)
(* (std::vector<cv::Point>, only ever summed, counted and bounded by the   *)
(* code) is a set of row runs <<y, x0, x1>>, the pixels (x0..x1, y).  A    *)
(* binary image is a set of pairwise disjoint filled rectangles            *)
(* <<x0, y0, x1, y1>> (inclusive pixel coordinates inside the frame).      *)
(* double values are fixed-point integers; the scales are chosen so that   *)
(* every double -> int truncation of the code is reproduced exactly over   *)
(* the whole 320 x 180 frame.                                              *)
(***************************************************************************)
EXTENDS Integers, Sequences, FiniteSets, TLC

VARIABLES
    tracked_waves,     \* main: std::vector<Wave> tracked_waves
    recognized_waves,  \* main: std::vector<Wave> recognized_waves
    tmp_sections,      \* main: tmp_sections of the frame being processed
    binary_image,      \* main: binary_image of the frame being processed
    frame_number,      \* main: frame_number
    number_of_frames,  \* main: number_of_frames
    id,                \* Wave::set_wave_name: static int id
    pc,                \* position in the loop body of main
    destroyed,         \* history: Waves erased from tracked_waves and not archived
    ever_recognized,   \* history: name_ of every Wave seen with recognized_ set
    before,            \* history: <<tracked_waves, recognized_waves>> on entry
                       \*          to the operation that ran last
    inputs             \* the frames the preprocessing stage may deliver

vars == <<tracked_waves, recognized_waves, tmp_sections, binary_image,
          frame_number, number_of_frames, id, pc, destroyed, ever_recognized,
          before, inputs>>

(***************************************************************************)
(* Program constants.                                                      *)
(***************************************************************************)
kDisplacementThreshold == 10
kMassThreshold == 1000
kSearchRegionBuffer == 15
kAnalysisFrameWidth == 320
kAnalysisFrameHeight == 180
kWaveAngle == 5
kTrackingHistory == 20
kMinArea == 100
\* kMinInertiaRatio = 0.0 and kMaxInertiaRatio = 0.1 as fractions.
kMinInertiaRatio == <<0, 10>>
kMaxInertiaRatio == <<1, 10>>

\* tan(kWaveAngle*3.14159265/180.0) = 0.0874886634... = TanNum / TanDen, and
\* sqrt(tan^2 + 1) = AxisNorm / TanDen.  With these, x*TanNum \div TanDen is
\* int(x * tan(..)) for every 0 <= x <= 320 and the displacement quotient is
\* the truncated double for every pair of centroids of the frame.
TanNum == 437443
TanDen == 5000000
AxisNorm == 5019099

Abs(x) == IF x < 0 THEN -x ELSE x
Min(S) == CHOOSE x \in S : \A y \in S : x <= y
Max(S) == CHOOSE x \in S : \A y \in S : x >= y

\* int v = <int> * std::tan(axis_angle_*3.14159265/180.0): the product is a
\* double, the conversion to int truncates toward zero.
TruncTan(v) ==
    IF v >= 0 THEN (v * TanNum) \div TanDen
              ELSE -(((-v) * TanNum) \div TanDen)

(***************************************************************************)
(* Pixel lists.                                                            *)
(***************************************************************************)
\* The sums over a pixel list are taken block by block, a block being the
\* pixels of up to eight rows from the top row of the list on (a sum of
\* integers does not depend on the order of the loop).
Block(P) == LET top == Min({r[1] : r \in P}) IN {r \in P : r[1] < top + 8}

Add3(a, b) == <<a[1] + b[1], a[2] + b[2], a[3] + b[3]>>

RECURSIVE BlockSums(_)
BlockSums(P) ==
    IF P = {} THEN <<0, 0, 0>>
    ELSE LET r == CHOOSE r \in P : TRUE
             n == r[3] - r[2] + 1
             rest == BlockSums(P \ {r})
         IN  <<rest[1] + n,
               rest[2] + (n * (r[2] + r[3])) \div 2,
               rest[3] + n * r[1]>>

\* <<size, sum_x, sum_y>> of a pixel list: points_.size() and the two sums the
\* loops over points_ accumulate.
RECURSIVE PointSums(_)
PointSums(P) ==
    IF P = {} THEN <<0, 0, 0>>
    ELSE Add3(BlockSums(Block(P)), PointSums(P \ Block(P)))

\* cv::fillPoly of the search ROI: pixel (x, y) is set when it lies in the
\* closed quadrilateral roi = <<upper_left, upper_right, lower_right,
\* lower_left>> (vertical left and right edges at x = 0 and x = width).
InRoi(roi, x, y) ==
    LET w == roi[2][1] - roi[1][1]
    IN  /\ x >= roi[1][1] /\ x <= roi[2][1]
        /\ (y - roi[1][2]) * w >= (roi[2][2] - roi[1][2]) * (x - roi[1][1])
        /\ (y - roi[4][2]) * w <= (roi[3][2] - roi[4][2]) * (x - roi[4][1])

\* ceil(n / d) for d > 0.
CeilDiv(n, d) == -((-n) \div d)

\* The pixels of one filled rectangle of the image that fillPoly + bitwise_and
\* + findNonZero keep, as row runs: for each row y of the rectangle the
\* columns x with InRoi(roi, x, y), solved for x (the ROI is convex, so they
\* form one run).  The upper and lower edges of a search ROI never rise with
\* x: roi[1][2] >= roi[2][2] and roi[4][2] >= roi[3][2].
RunsInRoi(rect, roi) ==
    LET w == roi[2][1] - roi[1][1]
        up == roi[1][2] - roi[2][2]
        dn == roi[4][2] - roi[3][2]
        lo(y) == IF up = 0 THEN (IF y >= roi[1][2] THEN rect[1] ELSE rect[3] + 1)
                 ELSE LET x == roi[1][1] + CeilDiv((roi[1][2] - y) * w, up)
                      IN  IF x > rect[1] THEN x ELSE rect[1]
        hi(y) == IF dn = 0 THEN (IF y <= roi[4][2] THEN rect[3] ELSE rect[1] - 1)
                 ELSE LET x == roi[4][1] + ((roi[4][2] - y) * w) \div dn
                      IN  IF x < rect[3] THEN x ELSE rect[3]
    IN  {<<y, lo(y), hi(y)>> : y \in {yy \in rect[2]..rect[4] : lo(yy) <= hi(yy)}}

(***************************************************************************)
(* Wave methods (wave_objects.cpp).                                        *)
(***************************************************************************)
\* Wave::set_original_axis.  original_axis_ holds <<A, B, C>> scaled by TanDen.
set_original_axis(w) ==
    [w EXCEPT !.original_axis_ =
        << -TanNum,
           -TanDen,
           w.centroid_[2] * TanDen + TanNum * w.centroid_[1] >>]

\* A variant of update_searchroi_coors that takes the right-hand delta at the
\* left edge; the shape of the search ROI (C30) must reject it.
update_searchroi_coors_right_delta(w) ==
    LET delta_y_right == TruncTan(kAnalysisFrameWidth - w.centroid_[1])
        upper_left == <<0, w.centroid_[2] + delta_y_right - kSearchRegionBuffer>>
        upper_right == <<kAnalysisFrameWidth,
                         w.centroid_[2] - delta_y_right - kSearchRegionBuffer>>
        lower_right == <<kAnalysisFrameWidth,
                         w.centroid_[2] - delta_y_right + kSearchRegionBuffer>>
        lower_left == <<0, w.centroid_[2] + delta_y_right + kSearchRegionBuffer>>
        ROI == <<upper_left, upper_right, lower_right, lower_left>>
    IN  [w EXCEPT !.searchroi_coors_ = <<ROI>>]

\* Wave::update_searchroi_coors.
update_searchroi_coors(w) ==
    LET delta_y_left == TruncTan(w.centroid_[1])
        delta_y_right == TruncTan(kAnalysisFrameWidth - w.centroid_[1])
        upper_left == <<0, w.centroid_[2] + delta_y_left - kSearchRegionBuffer>>
        upper_right == <<kAnalysisFrameWidth,
                         w.centroid_[2] - delta_y_right - kSearchRegionBuffer>>
        lower_right == <<kAnalysisFrameWidth,
                         w.centroid_[2] - delta_y_right + kSearchRegionBuffer>>
        lower_left == <<0, w.centroid_[2] + delta_y_left + kSearchRegionBuffer>>
        ROI == <<upper_left, upper_right, lower_right, lower_left>>
    IN  [w EXCEPT !.searchroi_coors_ = <<ROI>>]

\* A variant of update_death that never marks the Wave; "live entities are
\* populated" (C35) must reject it.
update_death_never(w, frame_no) == w

\* A variant of update_death that looks at the centroid, which is that of
\* the frame before; the death transition (C26) must reject it.
update_death_by_centroid(w, frame_no) ==
    IF w.centroid_ = <<-1, -1>> THEN [w EXCEPT !.death_ = frame_no] ELSE w

\* Wave::update_death.
update_death(w, frame_no) ==
    IF w.points_ = {} THEN [w EXCEPT !.death_ = frame_no] ELSE w

\* Wave::update_points: the image ANDed with the filled search ROI.
update_points(w, frame) ==
    [w EXCEPT !.points_ =
        UNION {RunsInRoi(rect, w.searchroi_coors_[1]) : rect \in frame}]

\* A variant of update_centroid that never evicts from centroid_vec_; the
\* bounded-history property (C8) must reject it.
update_centroid_unbounded(w) ==
    LET s == PointSums(w.points_)
        c == IF w.points_ # {} THEN <<s[2] \div s[1], s[3] \div s[1]>>
                               ELSE <<-1, -1>>
    IN  [w EXCEPT !.centroid_ = c,
                  !.centroid_vec_ = Append(w.centroid_vec_, c)]

\* Wave::update_centroid.
update_centroid(w) ==
    LET s == PointSums(w.points_)
        c == IF w.points_ # {} THEN <<s[2] \div s[1], s[3] \div s[1]>>
                               ELSE <<-1, -1>>
        pushed == Append(w.centroid_vec_, c)
    IN  [w EXCEPT !.centroid_ = c,
                  !.centroid_vec_ = IF Len(pushed) > kTrackingHistory
                                    THEN Tail(pushed) ELSE pushed]

RECURSIVE BlockSumSqX(_, _)
BlockSumSqX(P, mean_x) ==
    IF P = {} THEN 0
    ELSE LET r == CHOOSE r \in P : TRUE
             n == r[3] - r[2] + 1
             sq(k) == (k * (k + 1) * (2 * k + 1)) \div 6
             sum2 == sq(r[3]) - sq(r[2] - 1)
             sum1 == (n * (r[2] + r[3])) \div 2
         IN  sum2 - 2 * mean_x * sum1 + n * mean_x * mean_x
             + BlockSumSqX(P \ {r}, mean_x)

\* Sum over the pixels of P of (x - mean_x)^2, as the loop of
\* update_boundingbox_coors accumulates e_x (closed form per row run).
RECURSIVE SumSqX(_, _)
SumSqX(P, mean_x) ==
    IF P = {} THEN 0
    ELSE BlockSumSqX(Block(P), mean_x) + SumSqX(P \ Block(P), mean_x)

RECURSIVE BlockSumSqY(_, _)
BlockSumSqY(P, mean_y) ==
    IF P = {} THEN 0
    ELSE LET r == CHOOSE r \in P : TRUE
         IN  (r[3] - r[2] + 1) * (r[1] - mean_y) * (r[1] - mean_y)
             + BlockSumSqY(P \ {r}, mean_y)

\* Sum over the pixels of P of (y - mean_y)^2 (e_y of the same loop).
RECURSIVE SumSqY(_, _)
SumSqY(P, mean_y) ==
    IF P = {} THEN 0
    ELSE BlockSumSqY(Block(P), mean_y) + SumSqY(P \ Block(P), mean_y)

\* Wave::update_boundingbox_coors.  The 3-sigma trim is the code's; the
\* cv::minAreaRect / cv::boxPoints of the kept pixels is represented by their
\* axis-aligned hull <<min_x, min_y, max_x, max_y>>.
update_boundingbox_coors(w) ==
    IF w.points_ = {} THEN w
    ELSE
      LET s == PointSums(w.points_)
          mean_x == s[2] \div s[1]
          mean_y == s[3] \div s[1]
          e_x == SumSqX(w.points_, mean_x)
          e_y == SumSqY(w.points_, mean_y)
          \* |v - mean| <= 3*std  <=>  size * (v - mean)^2 <= 9 * e
          keep_x(x) == s[1] * (x - mean_x) * (x - mean_x) <= 9 * e_x
          keep_y(y) == s[1] * (y - mean_y) * (y - mean_y) <= 9 * e_y
          \* the kept columns and rows are those within r_x of mean_x and
          \* within r_y of mean_y
          r_x == Cardinality({r \in 1..kAnalysisFrameWidth : keep_x(mean_x + r)})
          r_y == Cardinality({r \in 1..kAnalysisFrameHeight : keep_y(mean_y + r)})
          kept == {<<r[1],
                     IF r[2] > mean_x - r_x THEN r[2] ELSE mean_x - r_x,
                     IF r[3] < mean_x + r_x THEN r[3] ELSE mean_x + r_x>> :
                      r \in {q \in w.points_ : Abs(q[1] - mean_y) <= r_y}}
          points_wo_outliers == {r \in kept : r[2] <= r[3]}
      IN  [w EXCEPT !.boundingbox_coors_ =
              IF points_wo_outliers = {} THEN <<>>
              ELSE <<Min({r[2] : r \in points_wo_outliers}),
                     Min({r[1] : r \in points_wo_outliers}),
                     Max({r[3] : r \in points_wo_outliers}),
                     Max({r[1] : r \in points_wo_outliers})>>]

\* A variant of update_displacement without the test of the centroid; the
\* guard of the empty representation (C27) must reject it.
update_displacement_unguarded(w) ==
    LET d == Abs(w.original_axis_[1] * w.centroid_[1]
                 + w.original_axis_[2] * w.centroid_[2]
                 + w.original_axis_[3]) \div AxisNorm
        pushed == Append(w.displacement_vec_, d)
    IN  [w EXCEPT !.displacement_ = d,
                  !.max_displacement_ = IF d > w.max_displacement_
                                        THEN d ELSE w.max_displacement_,
                  !.displacement_vec_ = IF Len(pushed) > kTrackingHistory
                                        THEN Tail(pushed) ELSE pushed]

\* Wave::update_displacement.  displacement_ is an int: the double quotient
\* is truncated on assignment.
update_displacement(w) ==
    LET d == IF w.centroid_[1] > -1 /\ w.centroid_[2] > -1
             THEN Abs(w.original_axis_[1] * w.centroid_[1]
                      + w.original_axis_[2] * w.centroid_[2]
                      + w.original_axis_[3]) \div AxisNorm
             ELSE w.displacement_
        pushed == Append(w.displacement_vec_, d)
    IN  [w EXCEPT !.displacement_ = d,
                  !.max_displacement_ = IF d > w.max_displacement_
                                        THEN d ELSE w.max_displacement_,
                  !.displacement_vec_ = IF Len(pushed) > kTrackingHistory
                                        THEN Tail(pushed) ELSE pushed]

\* A variant of update_mass in which max_mass_ follows mass_; the running
\* maxima (C28) must reject it.
update_mass_last(w) ==
    LET m == IF w.points_ # {} THEN PointSums(w.points_)[1] ELSE 0
    IN  [w EXCEPT !.mass_ = m, !.max_mass_ = m]

\* Wave::update_mass.
update_mass(w) ==
    LET m == IF w.points_ # {} THEN PointSums(w.points_)[1] ELSE 0
    IN  [w EXCEPT !.mass_ = m,
                  !.max_mass_ = IF m > w.max_mass_ THEN m ELSE w.max_mass_]

\* A variant of update_recognized that follows the current mass and
\* displacement instead of latching; monotonic recognition (C1) must reject it.
update_recognized_unlatched(w) ==
    [w EXCEPT !.recognized_ = /\ w.displacement_ >= kDisplacementThreshold
                              /\ w.mass_ >= kMassThreshold]

\* A variant of update_recognized that is content with one of the two
\* thresholds; "recognition requires both signals" (C2) must reject it.
update_recognized_either(w) ==
    IF /\ ~w.recognized_
       /\ \/ w.max_displacement_ >= kDisplacementThreshold
          \/ w.max_mass_ >= kMassThreshold
    THEN [w EXCEPT !.recognized_ = TRUE]
    ELSE w

\* A variant of update_recognized that asks for the displacement alone;
\* "recognition equals the threshold predicate" (C33) must reject it.
update_recognized_displacement_only(w) ==
    IF ~w.recognized_ /\ w.max_displacement_ >= kDisplacementThreshold
    THEN [w EXCEPT !.recognized_ = TRUE]
    ELSE w

\* A variant of update_recognized that looks at the mass only; static-scene
\* rejection (C17) must reject it.
update_recognized_mass_only(w) ==
    IF ~w.recognized_ /\ w.max_mass_ >= kMassThreshold
    THEN [w EXCEPT !.recognized_ = TRUE]
    ELSE w

\* Wave::update_recognized.
update_recognized(w) ==
    IF /\ ~w.recognized_
       /\ w.max_displacement_ >= kDisplacementThreshold
       /\ w.max_mass_ >= kMassThreshold
    THEN [w EXCEPT !.recognized_ = TRUE]
    ELSE w

\* A variant of the constructor that also calls update_displacement, so that
\* displacement_vec_ starts with one entry; "history lengths are offset by
\* one" (C40) must reject it.
Wave_with_displacement(contour, frame_no, name) ==
    LET w0 == [name_ |-> name,
               points_ |-> contour,
               birth_ |-> frame_no,
               axis_angle_ |-> kWaveAngle,
               centroid_ |-> <<0, 0>>,
               centroid_vec_ |-> <<>>,
               original_axis_ |-> <<0, 0, 0>>,
               searchroi_coors_ |-> <<>>,
               boundingbox_coors_ |-> <<>>,
               displacement_ |-> 0,
               max_displacement_ |-> 0,
               displacement_vec_ |-> <<>>,
               mass_ |-> 0,
               max_mass_ |-> 0,
               recognized_ |-> FALSE,
               death_ |-> -1]
    IN  update_mass(
          update_displacement(
            update_boundingbox_coors(
              update_searchroi_coors(
                set_original_axis(
                  update_centroid(w0))))))

\* Wave::Wave(contour, frame_number): the member initialisers, then the six
\* calls of the constructor body.  name is the value set_wave_name assigns
\* (the static counter after its increment).
Wave(contour, frame_no, name) ==
    LET w0 == [name_ |-> name,
               points_ |-> contour,
               birth_ |-> frame_no,
               axis_angle_ |-> kWaveAngle,
               centroid_ |-> <<0, 0>>,
               centroid_vec_ |-> <<>>,
               original_axis_ |-> <<0, 0, 0>>,
               searchroi_coors_ |-> <<>>,
               boundingbox_coors_ |-> <<>>,
               displacement_ |-> 0,
               max_displacement_ |-> 0,
               displacement_vec_ |-> <<>>,
               mass_ |-> 0,
               max_mass_ |-> 0,
               recognized_ |-> FALSE,
               death_ |-> -1]
    IN  update_mass(
          update_boundingbox_coors(
            update_searchroi_coors(
              set_original_axis(
                update_centroid(w0)))))

(***************************************************************************)
(* Detection (detection.cpp).  A raw contour is the border of one filled   *)
(* rectangle <<x0, y0, x1, y1>> of the image, as cv::findContours with     *)
(* CV_CHAIN_APPROX_NONE traces it.                                         *)
(***************************************************************************)
\* The points of the contour of a filled rectangle: its border pixels.
ContourPoints(rect) ==
    {<<rect[2], rect[1], rect[3]>>, <<rect[4], rect[1], rect[3]>>}
    \cup {<<y, rect[1], rect[1]>> : y \in (rect[2] + 1)..(rect[4] - 1)}
    \cup {<<y, rect[3], rect[3]>> : y \in (rect[2] + 1)..(rect[4] - 1)}

\* cv::moments of that contour (Green's formula over the border polygon, sides
\* a and b): m00 = a*b, mu20 = a^3*b/12, mu02 = a*b^3/12, mu11 = 0.  The
\* central moments are kept in twelfths, so that they are integers.
moments(rect) ==
    LET a == rect[3] - rect[1]
        b == rect[4] - rect[2]
    IN  [m00 |-> a * b, mu20 |-> a * a * a * b, mu02 |-> a * b * b * b, mu11 |-> 0]

\* a < b * denom, for denom = sqrt((2*mu11)^2 + (mu20 - mu02)^2) and b > 0,
\* decided without taking the root.
LtTimesDenom(a, b, moms) ==
    IF moms.mu11 = 0 THEN a < b * Abs(moms.mu20 - moms.mu02)
    ELSE a < 0 \/ a * a < b * b * (4 * moms.mu11 * moms.mu11
                     + (moms.mu20 - moms.mu02) * (moms.mu20 - moms.mu02))

\* A variant of RatioLt that takes ratio = 0 when denom <= eps;
\* degenerate-shape rejection (C20) must reject it.
RatioLt_degenerate_zero(moms, r) ==
    IF moms.mu11 = 0 /\ moms.mu20 = moms.mu02
    THEN 0 < r[1]
    ELSE LtTimesDenom((r[2] - r[1]) * (moms.mu20 + moms.mu02), r[2] + r[1], moms)

\* ratio < r for the inertia ratio of KeepContour and the fraction
\* r = <<p, q>>.  If denom <= eps = 1e-2 (for moments in twelfths: denom = 0)
\* ratio is 1.  Otherwise, with cosmin = (mu20-mu02)/denom and
\* sinmin = 2*mu11/denom, imin is (mu20 + mu02 - denom)/2 and imax is
\* (mu20 + mu02 + denom)/2, so that
\*   ratio = imin/imax < p/q  <=>  (q - p)*(mu20 + mu02) < (q + p)*denom.
RatioLt(moms, r) ==
    IF moms.mu11 = 0 /\ moms.mu20 = moms.mu02
    THEN r[2] < r[1]
    ELSE LtTimesDenom((r[2] - r[1]) * (moms.mu20 + moms.mu02), r[2] + r[1], moms)

\* A variant of KeepContour with the area test alone; the end-to-end
\* scenario (C18) must reject it.
KeepContour_area_only(contour, min_area, min_inertia_ratio, max_inertia_ratio) ==
    ~(moments(contour).m00 < kMinArea)

\* A variant of KeepContour that also rejects area = kMinArea; the area
\* filter property (C19) must reject it.
KeepContour_area_le(contour, min_area, min_inertia_ratio, max_inertia_ratio) ==
    LET moms == moments(contour)
        area == moms.m00
        ret1 == ~(area <= kMinArea)
    IN  IF ret1
        THEN ~(RatioLt(moms, kMinInertiaRatio) \/ ~RatioLt(moms, kMaxInertiaRatio))
        ELSE FALSE

\* KeepContour.  The three threshold parameters are not read by the body: it
\* tests against kMinArea, kMinInertiaRatio and kMaxInertiaRatio.
KeepContour(contour, min_area, min_inertia_ratio, max_inertia_ratio) ==
    LET moms == moments(contour)
        area == moms.m00
        ret1 == ~(area < kMinArea)
    IN  IF ret1
        THEN ~(RatioLt(moms, kMinInertiaRatio) \/ ~RatioLt(moms, kMaxInertiaRatio))
        ELSE FALSE

\* A variant of Erase that erases the last element; the effect of
\* FilterAndConvert on its input (C23) must reject it.
Erase_last(v, i) == SubSeq(v, 1, Len(v) - 1)

\* Erasing element i (0-based) of a vector: v.erase(v.begin() + i).
Erase(v, i) == SubSeq(v, 1, i) \o SubSeq(v, i + 2, Len(v))

\* A variant of FilterAndConvert that puts each new Wave at the front of
\* waves; the filter result (C22) must reject it.
RECURSIVE FilterAndConvert_front(_, _, _, _, _)
FilterAndConvert_front(contours, waves, frame_no, name, i) ==
    IF i = Len(contours) THEN <<contours, waves, name>>
    ELSE IF KeepContour(contours[i + 1], kMinArea, kMinInertiaRatio, kMaxInertiaRatio)
         THEN FilterAndConvert_front(contours,
                  <<Wave(ContourPoints(contours[i + 1]), frame_no, name + 1)>> \o waves,
                  frame_no, name + 1, i + 1)
         ELSE FilterAndConvert_front(Erase(contours, i), waves, frame_no, name, i)

\* FilterAndConvert: the while loop, from index i.  The result is
\* <<contours, waves, id>> when the loop ends; id is the static counter of
\* set_wave_name, which every constructed Wave increments.
RECURSIVE FilterAndConvert(_, _, _, _, _)
FilterAndConvert(contours, waves, frame_no, name, i) ==
    IF i = Len(contours) THEN <<contours, waves, name>>
    ELSE IF KeepContour(contours[i + 1], kMinArea, kMinInertiaRatio, kMaxInertiaRatio)
         THEN FilterAndConvert(contours,
                  Append(waves, Wave(ContourPoints(contours[i + 1]), frame_no, name + 1)),
                  frame_no, name + 1, i + 1)
         ELSE FilterAndConvert(Erase(contours, i), waves, frame_no, name, i)

\* A variant of DetectSections in which the counter of set_wave_name is not
\* static: it starts from 0 in every frame.  Identity (C21) must reject it.
DetectSections_local_counter(blobs, frame_no, name) ==
    LET r == FilterAndConvert(blobs, <<>>, frame_no, 0, 0)
    IN  <<r[2], r[3]>>

\* DetectSections: FindContoursBasic yields the blobs' contours in the order
\* the frame input lists them; the result is <<sections, id>>.
DetectSections(blobs, frame_no, name) ==
    LET r == FilterAndConvert(blobs, <<>>, frame_no, name, 0)
    IN  <<r[2], r[3]>>

(***************************************************************************)
(* Tracking (tracking.cpp).                                                *)
(***************************************************************************)
\* A comparator that puts the oldest Wave first; duplicate resolution (C9)
\* must reject it in the place of CompareAgeDesc.
CompareAgeDesc_oldest_first(a, b) == a.birth_ <= b.birth_

CompareAgeDesc(a, b) == a.birth_ >= b.birth_
CompareAgeAsc(a, b) == a.birth_ <= b.birth_

\* left_y of WillBeMerged and RemoveDuplicateWaves.
LeftY(wave) == wave.centroid_[2] + TruncTan(wave.centroid_[1])

\* "left_y falls inside the search ROI of other".
InShadow(left_y, other) ==
    /\ left_y >= other.searchroi_coors_[1][1][2]
    /\ left_y <= other.searchroi_coors_[1][4][2]

\* A variant of WillBeMerged that looks at the first Wave only; "admission
\* never promotes a covered Candidate" (C14) must reject it.
WillBeMerged_first_only(wave, waves) ==
    waves # <<>> /\ InShadow(LeftY(wave), waves[1])

WillBeMerged(wave, waves) ==
    \E i \in 1..Len(waves) : InShadow(LeftY(wave), waves[i])

\* A variant of TrackWave without the forced death in the last frame; the
\* archive-completeness property (C6) must reject it.
TrackWave_no_final_death(w, frame, frame_no, n_frames) ==
    LET w1 == update_searchroi_coors(w)
        w2 == update_points(w1, frame)
        w3 == update_death(w2, frame_no)
        w5 == update_centroid(w3)
        w6 == update_boundingbox_coors(w5)
        w7 == update_displacement(w6)
        w8 == update_mass(w7)
    IN  update_recognized(w8)

\* A variant of TrackWave that sets the axis anew from the centroid of the
\* frame; the immutability of the identity fields (C29) must reject it.
TrackWave_reset_axis(w, frame, frame_no, n_frames) ==
    LET w1 == update_searchroi_coors(w)
        w2 == update_points(w1, frame)
        w3 == update_death(w2, frame_no)
        w4 == IF frame_no = n_frames THEN [w3 EXCEPT !.death_ = frame_no] ELSE w3
        w5 == set_original_axis(update_centroid(w4))
        w6 == update_boundingbox_coors(w5)
        w7 == update_displacement(w6)
        w8 == update_mass(w7)
    IN  update_recognized(w8)

\* The body of the for loop of TrackWaves for one Wave.
TrackWave(w, frame, frame_no, n_frames) ==
    LET w1 == update_searchroi_coors(w)
        w2 == update_points(w1, frame)
        w3 == update_death(w2, frame_no)
        w4 == IF frame_no = n_frames THEN [w3 EXCEPT !.death_ = frame_no] ELSE w3
        w5 == update_centroid(w4)
        w6 == update_boundingbox_coors(w5)
        w7 == update_displacement(w6)
        w8 == update_mass(w7)
    IN  update_recognized(w8)

\* A variant of TrackWaves that leaves the Waves in the reverse order; the
\* locality of TrackWaves (C24) must reject it.
TrackWaves_reversed(sections, frame, frame_no, n_frames) ==
    [i \in 1..Len(sections) |->
        TrackWave(sections[Len(sections) + 1 - i], frame, frame_no, n_frames)]

\* TrackWaves: iteration i reads and writes sections[i] only.
TrackWaves(sections, frame, frame_no, n_frames) ==
    [i \in 1..Len(sections) |-> TrackWave(sections[i], frame, frame_no, n_frames)]

\* Variants of RemoveDeadWaves.  The first steps past the element that
\* follows an erased one (C4 must reject it); the second archives every dead
\* Wave (C5 must reject it); the third leaves the unrecognized dead in place
\* (C7 must reject it).
RECURSIVE RemoveDeadWaves_skip(_, _, _)
RemoveDeadWaves_skip(tracked, recognized, i) ==
    IF i >= Len(tracked) THEN <<tracked, recognized>>
    ELSE IF tracked[i + 1].death_ # -1
         THEN RemoveDeadWaves_skip(Erase(tracked, i),
                                   IF tracked[i + 1].recognized_ = TRUE
                                   THEN Append(recognized, tracked[i + 1])
                                   ELSE recognized,
                                   i + 1)
         ELSE RemoveDeadWaves_skip(tracked, recognized, i + 1)

RECURSIVE RemoveDeadWaves_archive_all(_, _, _)
RemoveDeadWaves_archive_all(tracked, recognized, i) ==
    IF i = Len(tracked) THEN <<tracked, recognized>>
    ELSE IF tracked[i + 1].death_ # -1
         THEN RemoveDeadWaves_archive_all(Erase(tracked, i),
                                          Append(recognized, tracked[i + 1]), i)
         ELSE RemoveDeadWaves_archive_all(tracked, recognized, i + 1)

RECURSIVE RemoveDeadWaves_keep_unrecognized(_, _, _)
RemoveDeadWaves_keep_unrecognized(tracked, recognized, i) ==
    IF i = Len(tracked) THEN <<tracked, recognized>>
    ELSE IF tracked[i + 1].death_ # -1 /\ tracked[i + 1].recognized_ = TRUE
         THEN RemoveDeadWaves_keep_unrecognized(Erase(tracked, i),
                                                Append(recognized, tracked[i + 1]), i)
         ELSE RemoveDeadWaves_keep_unrecognized(tracked, recognized, i + 1)

\* A variant of RemoveDeadWaves that puts a recognized dead Wave at the front
\* of recognized_waves; archive integrity (C38) must reject it.
RECURSIVE RemoveDeadWaves_push_front(_, _, _)
RemoveDeadWaves_push_front(tracked, recognized, i) ==
    IF i = Len(tracked) THEN <<tracked, recognized>>
    ELSE IF tracked[i + 1].death_ # -1
         THEN RemoveDeadWaves_push_front(Erase(tracked, i),
                                         IF tracked[i + 1].recognized_ = TRUE
                                         THEN <<tracked[i + 1]>> \o recognized
                                         ELSE recognized,
                                         i)
         ELSE RemoveDeadWaves_push_front(tracked, recognized, i + 1)

\* RemoveDeadWaves: the while loop, from index i; the result is
\* <<tracked_waves, recognized_waves>>.
RECURSIVE RemoveDeadWaves(_, _, _)
RemoveDeadWaves(tracked, recognized, i) ==
    IF i = Len(tracked) THEN <<tracked, recognized>>
    ELSE IF tracked[i + 1].death_ # -1
         THEN RemoveDeadWaves(Erase(tracked, i),
                              IF tracked[i + 1].recognized_ = TRUE
                              THEN Append(recognized, tracked[i + 1])
                              ELSE recognized,
                              i)
         ELSE RemoveDeadWaves(tracked, recognized, i + 1)

\* std::sort(waves.begin(), waves.end(), Comp) with the two comparators of
\* tracking.cpp.  Both return true on equal keys, so they are no strict
\* weak orderings and the call is undefined when two Waves share a birth
\* frame: the outcomes are the arrangements of the input in which the
\* comparator holds of every pair in order (equal births in any order).
\* With distinct births there is exactly one.
Arrangements(waves) ==
    {[i \in 1..Len(waves) |-> waves[p[i]]] : p \in Permutations(1..Len(waves))}

\* std::sort(waves.begin(), waves.end(), CompareAgeDesc)
std_sort_CompareAgeDesc(waves) ==
    {s \in Arrangements(waves) :
        \A i, j \in 1..Len(waves) : i < j => CompareAgeDesc(s[i], s[j])}

\* A variant of the second sort of RemoveDuplicateWaves that leaves the
\* vector as it is; "the live set stays ordered by age" (C36) must reject it.
std_sort_CompareAgeAsc_omitted(waves) == {waves}

\* std::sort(waves.begin(), waves.end(), CompareAgeAsc)
std_sort_CompareAgeAsc(waves) ==
    {s \in Arrangements(waves) :
        \A i, j \in 1..Len(waves) : i < j => CompareAgeAsc(s[i], s[j])}

\* RemoveDuplicateWaves: the inner while loop for waves[i], from index j;
\* the result is <<waves, j>> at the break or at the end of the loop.
RECURSIVE RemoveDuplicateInner(_, _, _, _)
RemoveDuplicateInner(waves, i, left_y, j) ==
    IF j = Len(waves) THEN <<waves, j>>
    ELSE IF InShadow(left_y, waves[j + 1])
         THEN <<Erase(waves, i), j>>
         ELSE RemoveDuplicateInner(waves, i, left_y, j + 1)

\* RemoveDuplicateWaves: the outer while loop, from index i.
RECURSIVE RemoveDuplicateOuter(_, _)
RemoveDuplicateOuter(waves, i) ==
    IF i = Len(waves) THEN waves
    ELSE LET r == RemoveDuplicateInner(waves, i, LeftY(waves[i + 1]), i + 1)
         IN  RemoveDuplicateOuter(r[1], IF r[2] = Len(r[1]) THEN i + 1 ELSE i)

\* RemoveDuplicateWaves: the possible results (one per outcome of the sorts).
RemoveDuplicateWaves(waves) ==
    UNION {std_sort_CompareAgeAsc(RemoveDuplicateOuter(s, 0)) :
              s \in std_sort_CompareAgeDesc(waves)}

\* A variant of AddNewSectionsToTrackedWaves that inserts at the front; the
\* admission property (C15) must reject it.
RECURSIVE AddNewSectionsToTrackedWaves_front(_, _, _)
AddNewSectionsToTrackedWaves_front(sections, tracked, i) ==
    IF i = Len(sections) THEN tracked
    ELSE AddNewSectionsToTrackedWaves_front(sections,
             IF ~WillBeMerged(sections[i + 1], tracked)
             THEN <<sections[i + 1]>> \o tracked ELSE tracked,
             i + 1)

\* A variant of AddNewSectionsToTrackedWaves that tests every section
\* against tracked_waves as it was before the call; "same-frame admissions
\* do not overlap" (C37) must reject it.
AddNewSectionsToTrackedWaves_before_call(sections, tracked, i) ==
    tracked \o SelectSeq(sections, LAMBDA s : ~WillBeMerged(s, tracked))

\* AddNewSectionsToTrackedWaves: the for loop, from index i.
RECURSIVE AddNewSectionsToTrackedWaves(_, _, _)
AddNewSectionsToTrackedWaves(sections, tracked, i) ==
    IF i = Len(sections) THEN tracked
    ELSE AddNewSectionsToTrackedWaves(sections,
             IF ~WillBeMerged(sections[i + 1], tracked)
             THEN Append(tracked, sections[i + 1]) ELSE tracked,
             i + 1)

(***************************************************************************)
(* Frame inputs.  A frame is the ordered list of its foreground blobs:     *)
(* the binary image is their union, cv::findContours lists their contours *)
(* in that order.                                                          *)
(***************************************************************************)
Range(f) == {f[i] : i \in DOMAIN f}

\* 100 x 11 pixel bars (1100 pixels each) around rows 60, 80 and 100, and a
\* bar at the top edge of the frame.
BlobA == <<100, 55, 199, 65>>
BlobB == <<100, 95, 199, 105>>
BlobC == <<100, 75, 199, 85>>
BlobT == <<100, 0, 199, 10>>

MaxFrames == 5
DriverFrames == {<<>>, <<BlobA>>, <<BlobA, BlobB>>, <<BlobC>>}

(***************************************************************************)
(* main(): the body of the while loop, one action per call.                *)
(***************************************************************************)
Init ==
    /\ tracked_waves = <<>>
    /\ recognized_waves = <<>>
    /\ tmp_sections = <<>>
    /\ binary_image = {}
    /\ frame_number = 1
    /\ number_of_frames \in 1..MaxFrames
    /\ id = 0
    /\ pc = "read"
    /\ destroyed = {}
    /\ ever_recognized = {}
    /\ before = <<<<>>, <<>>>>
    /\ inputs = DriverFrames

\* A variant of ReadFrame that hands DetectSections the number of the frame
\* to come; the lifetime bounds (C34) must reject it.
ReadFrame_next_frame_number ==
    /\ pc = "read"
    /\ frame_number <= number_of_frames
    /\ \E blobs \in inputs :
          LET d == DetectSections(blobs, frame_number + 1, id)
          IN  /\ binary_image' = Range(blobs)
              /\ tmp_sections' = d[1]
              /\ id' = d[2]
    /\ pc' = "track"
    /\ UNCHANGED <<tracked_waves, recognized_waves, frame_number,
                   number_of_frames, destroyed, ever_recognized, before, inputs>>

\* cap >> frame; Preprocess; DetectSections.
ReadFrame ==
    /\ pc = "read"
    /\ frame_number <= number_of_frames
    /\ \E blobs \in inputs :
          LET d == DetectSections(blobs, frame_number, id)
          IN  /\ binary_image' = Range(blobs)
              /\ tmp_sections' = d[1]
              /\ id' = d[2]
    /\ pc' = "track"
    /\ UNCHANGED <<tracked_waves, recognized_waves, frame_number,
                   number_of_frames, destroyed, ever_recognized, before, inputs>>

\* if (frame.empty()) break;
EndOfVideo ==
    /\ pc = "read"
    /\ frame_number > number_of_frames
    /\ pc' = "done"
    /\ UNCHANGED <<tracked_waves, recognized_waves, tmp_sections, binary_image,
                   frame_number, number_of_frames, id, destroyed,
                   ever_recognized, before, inputs>>

\* tracking::TrackWaves(tracked_waves, binary_image, frame_number, number_of_frames)
DoTrackWaves ==
    /\ pc = "track"
    /\ tracked_waves' = TrackWaves(tracked_waves, binary_image, frame_number,
                                   number_of_frames)
    /\ ever_recognized' = ever_recognized \cup
          {tracked_waves'[i].name_ :
              i \in {k \in 1..Len(tracked_waves') : tracked_waves'[k].recognized_}}
    /\ before' = <<tracked_waves, recognized_waves>>
    /\ pc' = "reap"
    /\ UNCHANGED <<recognized_waves, tmp_sections, binary_image, frame_number,
                   number_of_frames, id, destroyed, inputs>>

\* tracking::RemoveDeadWaves(tracked_waves, recognized_waves)
DoRemoveDeadWaves ==
    LET r == RemoveDeadWaves(tracked_waves, recognized_waves, 0)
    IN  /\ pc = "reap"
        /\ tracked_waves' = r[1]
        /\ recognized_waves' = r[2]
        /\ destroyed' = destroyed \cup
              {[wave |-> w, by |-> "RemoveDeadWaves"] :
                  w \in {v \in Range(tracked_waves) :
                            v.death_ # -1 /\ ~v.recognized_}}
        /\ before' = <<tracked_waves, recognized_waves>>
        /\ pc' = "dedup"
        /\ UNCHANGED <<tmp_sections, binary_image, frame_number,
                       number_of_frames, id, ever_recognized, inputs>>

\* tracking::RemoveDuplicateWaves(tracked_waves)
DoRemoveDuplicateWaves ==
    /\ pc = "dedup"
    /\ \E result \in RemoveDuplicateWaves(tracked_waves) :
          /\ tracked_waves' = result
          /\ destroyed' = destroyed \cup
                {[wave |-> w, by |-> "RemoveDuplicateWaves"] :
                    w \in Range(tracked_waves) \ Range(result)}
    /\ before' = <<tracked_waves, recognized_waves>>
    /\ pc' = "admit"
    /\ UNCHANGED <<recognized_waves, tmp_sections, binary_image, frame_number,
                   number_of_frames, id, ever_recognized, inputs>>

\* A variant of DoAddNewSections that admits in the last frame too; the
\* end-of-sequence property (C16) must reject it.
DoAddNewSections_always ==
    /\ pc = "admit"
    /\ tracked_waves' = AddNewSectionsToTrackedWaves(tmp_sections, tracked_waves, 0)
    /\ tmp_sections' = <<>>
    /\ frame_number' = frame_number + 1
    /\ before' = <<tracked_waves, recognized_waves, tmp_sections>>
    /\ pc' = "read"
    /\ UNCHANGED <<recognized_waves, binary_image, number_of_frames, id,
                   destroyed, ever_recognized, inputs>>

\* if (frame_number < number_of_frames) AddNewSectionsToTrackedWaves(..);
\* ++frame_number;  tmp_sections goes out of scope.
DoAddNewSections ==
    /\ pc = "admit"
    /\ tracked_waves' =
          IF frame_number < number_of_frames
          THEN AddNewSectionsToTrackedWaves(tmp_sections, tracked_waves, 0)
          ELSE tracked_waves
    /\ tmp_sections' = <<>>
    /\ frame_number' = frame_number + 1
    /\ before' = <<tracked_waves, recognized_waves, tmp_sections>>
    /\ pc' = "read"
    /\ UNCHANGED <<recognized_waves, binary_image, number_of_frames, id,
                   destroyed, ever_recognized, inputs>>

Next ==
    \/ ReadFrame
    \/ EndOfVideo
    \/ DoTrackWaves
    \/ DoRemoveDeadWaves
    \/ DoRemoveDuplicateWaves
    \/ DoAddNewSections

Spec == Init /\ [][Next]_vars

(***************************************************************************)
(* One Wave under repeated update cycles: TrackWaves called on a vector    *)
(* holding a single Wave, frame after frame, whatever its state (also once *)
(* it is dead), for any image of the pool.                                 *)
(***************************************************************************)
MaxCycles == 4
WaveFrames == {<<>>, <<BlobA>>, <<BlobC>>, <<BlobT>>}

\* The Wave DetectSections and AddNewSectionsToTrackedWaves make of one blob
\* seen in frame 1.
InitWaveOn(frames, blob, n_frames) ==
    /\ tracked_waves =
          AddNewSectionsToTrackedWaves(DetectSections(<<blob>>, 1, 0)[1], <<>>, 0)
    /\ recognized_waves = <<>>
    /\ tmp_sections = <<>>
    /\ binary_image = {blob}
    /\ frame_number = 2
    /\ number_of_frames = n_frames
    /\ id = 1
    /\ pc = "cycle"
    /\ destroyed = {}
    /\ ever_recognized = {}
    /\ before = <<<<>>, <<>>>>
    /\ inputs = frames

UpdateCycle(last_frame) ==
    /\ pc = "cycle"
    /\ frame_number <= last_frame
    /\ \E blobs \in inputs :
          /\ binary_image' = Range(blobs)
          /\ tracked_waves' = TrackWaves(tracked_waves, Range(blobs), frame_number,
                                         number_of_frames)
    /\ ever_recognized' = ever_recognized \cup
          {tracked_waves'[i].name_ :
              i \in {k \in 1..Len(tracked_waves') : tracked_waves'[k].recognized_}}
    /\ before' = <<tracked_waves, recognized_waves>>
    /\ frame_number' = frame_number + 1
    /\ UNCHANGED <<recognized_waves, tmp_sections, number_of_frames, id, pc,
                   destroyed, inputs>>

InitWave ==
    \E n_frames \in 2..(MaxCycles + 2) : InitWaveOn(WaveFrames, BlobA, n_frames)

NextWave == UpdateCycle(MaxCycles + 1)

SpecWave == InitWave /\ [][NextWave]_vars

\* The same over a run longer than the tracking history.
HistoryCycles == 22
HistoryFrames == {<<>>, <<BlobA>>}

InitHistory == InitWaveOn(HistoryFrames, BlobA, HistoryCycles + 2)

NextHistory == UpdateCycle(HistoryCycles + 1)

SpecHistory == InitHistory /\ [][NextHistory]_vars

(***************************************************************************)
(* RemoveDeadWaves and RemoveDuplicateWaves called on vectors of Waves in  *)
(* any order.  Every Wave of the pool is the result of the constructor and *)
(* of the update cycles of the frames after its birth, up to the frame     *)
(* being processed (OpsFrame); it is dead or alive, recognized or not, as  *)
(* those updates left it.                                                  *)
(***************************************************************************)
MaxWaves == 3
OpsFrame == 5

\* 40 x 4 pixel bars with top row r.
Bar(r) == <<130, r, 169, r + 3>>

\* The Wave detected in frame birth on blob (with the static counter at
\* name - 1), after the update cycles of frames birth + 1, birth + 2, ...
\* on the images frames[1], frames[2], ...
RECURSIVE LifeFrom(_, _, _, _)
LifeFrom(w, frames, k, n_frames) ==
    IF k > Len(frames) THEN w
    ELSE CHOOSE r \in {LifeFrom(x, frames, k + 1, n_frames) :
                          x \in {TrackWave(w, Range(frames[k]), w.birth_ + k, n_frames)}} :
             TRUE

Life(blob, birth, name, frames, n_frames) ==
    CHOOSE r \in {LifeFrom(x, frames, 1, n_frames) :
                     x \in {DetectSections(<<blob>>, birth, name - 1)[1][1]}} : TRUE

\* A recognized Wave that died in frame OpsFrame - 1 (archived before now).
ArchivedWave(n_frames) ==
    Life(BlobA, OpsFrame - 4, 1, <<<<BlobC>>, <<BlobC>>, <<>>>>, n_frames)

\* <<blob, birth, name, frames>> of the Waves of the pool.
OpsLives ==
    << \* alive, at rest since its birth
      <<Bar(86), OpsFrame - 4, 2,
        <<<<Bar(86)>>, <<Bar(86)>>, <<Bar(86)>>, <<Bar(86)>>>>>>,
      \* recognized, lost in this frame
      <<BlobA, OpsFrame - 3, 3, <<<<BlobC>>, <<BlobC>>, <<>>>>>>,
      \* alive, moved down in this frame
      <<Bar(58), OpsFrame - 3, 4, <<<<Bar(58)>>, <<Bar(58)>>, <<Bar(72)>>>>>>,
      \* alive, recognized in this frame
      <<BlobA, OpsFrame - 2, 5, <<<<BlobC>>, <<BlobC>>>>>>,
      \* alive, moved up in this frame
      <<Bar(110), OpsFrame - 2, 6, <<<<Bar(110)>>, <<Bar(100)>>>>>>,
      \* alive, born together at a distance, both on the same blob in this frame
      <<Bar(120), OpsFrame - 2, 7, <<<<Bar(120)>>, <<Bar(132)>>>>>>,
      <<Bar(140), OpsFrame - 2, 8, <<<<Bar(140)>>, <<Bar(132)>>>>>>,
      \* unrecognized, lost in this frame
      <<Bar(20), OpsFrame - 1, 9, <<<<>>>>>>,
      \* alive, below the others
      <<Bar(150), OpsFrame - 1, 10, <<<<Bar(150)>>>>>> >>

\* The Waves of the pool in a video of n_frames frames, as a tuple.
OpsPool(n_frames) ==
    [k \in 1..Len(OpsLives) |->
        Life(OpsLives[k][1], OpsLives[k][2], OpsLives[k][3], OpsLives[k][4],
             n_frames)] \o <<>>

\* The vectors of at most n distinct elements of pool, in every order.
Vectors(pool, n) ==
    {[i \in 1..Len(v) |-> pool[v[i]]] :
        v \in {u \in UNION {[1..k -> 1..Len(pool)] : k \in 0..n} :
                  \A i, j \in 1..Len(u) : i # j => u[i] # u[j]}}

InitOps ==
    /\ number_of_frames \in {OpsFrame, OpsFrame + 1}
    /\ \E pool \in {OpsPool(number_of_frames)} :
          tracked_waves \in Vectors(pool, MaxWaves)
    /\ recognized_waves \in {<<>>, <<ArchivedWave(number_of_frames)>>}
    /\ tmp_sections = <<>>
    /\ binary_image = {}
    /\ frame_number = OpsFrame
    /\ id = 10
    /\ pc = "reap"
    /\ destroyed = {}
    /\ ever_recognized =
          {w.name_ : w \in {v \in Range(tracked_waves) \cup Range(recognized_waves) :
                               v.recognized_}}
    /\ before = <<<<>>, <<>>>>
    /\ inputs = {}

NextOps == DoRemoveDeadWaves \/ DoRemoveDuplicateWaves

SpecOps == InitOps /\ [][NextOps]_vars

(***************************************************************************)
(* The tracking phase of one frame from RemoveDeadWaves on, with sections  *)
(* detected in the frame waiting for AddNewSectionsToTrackedWaves.         *)
(***************************************************************************)
MaxAdmitWaves == 2

CandidateFrames ==
    {<<>>, <<Bar(86)>>, <<Bar(60)>>, <<Bar(150), Bar(20)>>,
     <<Bar(20), Bar(30), Bar(86)>>}

InitAdmit ==
    /\ number_of_frames \in {OpsFrame, OpsFrame + 1}
    /\ \E pool \in {OpsPool(number_of_frames)} :
          tracked_waves \in Vectors(pool, MaxAdmitWaves)
    /\ recognized_waves = <<>>
    /\ \E blobs \in CandidateFrames :
          LET d == DetectSections(blobs, OpsFrame, 10)
          IN  /\ binary_image = Range(blobs)
              /\ tmp_sections = d[1]
              /\ id = d[2]
    /\ frame_number = OpsFrame
    /\ pc = "reap"
    /\ destroyed = {}
    /\ ever_recognized =
          {w.name_ : w \in {v \in Range(tracked_waves) : v.recognized_}}
    /\ before = <<<<>>, <<>>>>
    /\ inputs = CandidateFrames

NextAdmit == DoRemoveDeadWaves \/ DoRemoveDuplicateWaves \/ DoAddNewSections

SpecAdmit == InitAdmit /\ [][NextAdmit]_vars

(***************************************************************************)
(* The driver on a static scene: every frame of the video shows the same   *)
(* blobs at the same place.                                                *)
(***************************************************************************)
StaticScenes == {<<BlobA>>, <<BlobB>>, <<BlobC>>, <<BlobA, BlobB>>}

InitStatic ==
    /\ tracked_waves = <<>>
    /\ recognized_waves = <<>>
    /\ tmp_sections = <<>>
    /\ binary_image = {}
    /\ frame_number = 1
    /\ number_of_frames \in 1..MaxFrames
    /\ id = 0
    /\ pc = "read"
    /\ destroyed = {}
    /\ ever_recognized = {}
    /\ before = <<<<>>, <<>>>>
    /\ \E scene \in StaticScenes : inputs = {scene}

SpecStatic == InitStatic /\ [][Next]_vars

(***************************************************************************)
(* DetectSections on one frame: the contours of up to MaxContours blobs of *)
(* several sizes, below, at and above kMinArea, oblong, square and between.*)
(***************************************************************************)
MaxContours == 2

\* <<width, height>> of the contour polygon; m00 is width * height.
ContourSizes ==
    {<<49, 2>>, <<99, 1>>, <<33, 3>>, <<2, 49>>, <<9, 9>>,
     <<50, 2>>, <<25, 4>>, <<20, 5>>, <<4, 25>>, <<10, 10>>,
     <<39, 39>>, <<99, 10>>, <<32, 10>>, <<30, 10>>}

\* The k-th blob of a frame, of the given size; the blobs lie 60 rows apart.
SizedBlob(size, k) ==
    <<10, 10 + 60 * (k - 1), 10 + size[1], 10 + 60 * (k - 1) + size[2]>>

InitDetect ==
    /\ tracked_waves = <<>>
    /\ recognized_waves = <<>>
    /\ tmp_sections = <<>>
    /\ binary_image = {}
    /\ frame_number = 1
    /\ number_of_frames = 1
    /\ id = 0
    /\ pc = "read"
    /\ destroyed = {}
    /\ ever_recognized = {}
    /\ before = <<<<>>, <<>>>>
    /\ \E sizes \in UNION {[1..n -> ContourSizes] : n \in 0..MaxContours} :
          inputs = {[k \in 1..Len(sizes) |-> SizedBlob(sizes[k], k)]}

NextDetect == ReadFrame

SpecDetect == InitDetect /\ [][NextDetect]_vars

(***************************************************************************)
(* The driver on one synthetic mask sequence of ScenarioFrames frames: no  *)
(* blob before frame 5; from frame 5 a single blob of 40 x 40 pixels (1600 *)
(* pixels), which moves down one row a frame up to frame 20 (15 rows, along*)
(* the normal of the birth axis but for the 5 degrees of kWaveAngle) and   *)
(* zero or one row a frame after that.                                     *)
(***************************************************************************)
ScenarioFrames == 50

\* The blob with its top row at y: pixels 70..109 by y..y+39.
ScenarioBlob(y) == <<70, y, 109, y + 39>>

\* The frames that may follow the frame whose binary image is image.
ScenarioFrame(frame_no, image) ==
    IF frame_no < 5 THEN {<<>>}
    ELSE IF frame_no = 5 THEN {<<ScenarioBlob(60)>>}
    ELSE LET y == (CHOOSE rect \in image : TRUE)[2]
         IN  IF frame_no <= 20 THEN {<<ScenarioBlob(y + 1)>>}
             ELSE {<<ScenarioBlob(y)>>, <<ScenarioBlob(y + 1)>>}

InitScenario ==
    /\ tracked_waves = <<>>
    /\ recognized_waves = <<>>
    /\ tmp_sections = <<>>
    /\ binary_image = {}
    /\ frame_number = 1
    /\ number_of_frames = ScenarioFrames
    /\ id = 0
    /\ pc = "read"
    /\ destroyed = {}
    /\ ever_recognized = {}
    /\ before = <<<<>>, <<>>>>
    /\ inputs = {}

\* cap >> frame; Preprocess; DetectSections, on the next frame of the sequence.
ReadScenarioFrame ==
    /\ pc = "read"
    /\ frame_number <= number_of_frames
    /\ \E blobs \in ScenarioFrame(frame_number, binary_image) :
          LET d == DetectSections(blobs, frame_number, id)
          IN  /\ binary_image' = Range(blobs)
              /\ tmp_sections' = d[1]
              /\ id' = d[2]
    /\ pc' = "track"
    /\ UNCHANGED <<tracked_waves, recognized_waves, frame_number,
                   number_of_frames, destroyed, ever_recognized, before, inputs>>

NextScenario ==
    \/ ReadScenarioFrame
    \/ EndOfVideo
    \/ DoTrackWaves
    \/ DoRemoveDeadWaves
    \/ DoRemoveDuplicateWaves
    \/ DoAddNewSections

SpecScenario == InitScenario /\ [][NextScenario]_vars

(***************************************************************************)
(* One call of FilterAndConvert on the contours of a frame.  When the call *)
(* has returned, before is <<the vector contours as it was passed in, the  *)
(* vector contours as the call leaves it>>.                                *)
(***************************************************************************)
InitFilter ==
    /\ tracked_waves = <<>>
    /\ recognized_waves = <<>>
    /\ tmp_sections = <<>>
    /\ binary_image = {}
    /\ frame_number \in {1, 2}
    /\ number_of_frames = 2
    /\ id = 0
    /\ pc = "read"
    /\ destroyed = {}
    /\ ever_recognized = {}
    /\ before = <<<<>>, <<>>>>
    /\ \E sizes \in UNION {[1..n -> ContourSizes] : n \in 0..MaxContours} :
          inputs = {[k \in 1..Len(sizes) |-> SizedBlob(sizes[k], k)]}

\* FilterAndConvert(contours, sections, frame_number), with sections empty.
DoFilterAndConvert ==
    /\ pc = "read"
    /\ \E contours \in inputs :
          LET r == FilterAndConvert(contours, <<>>, frame_number, id, 0)
          IN  /\ binary_image' = Range(contours)
              /\ before' = <<contours, r[1]>>
              /\ tmp_sections' = r[2]
              /\ id' = r[3]
    /\ pc' = "track"
    /\ UNCHANGED <<tracked_waves, recognized_waves, frame_number,
                   number_of_frames, destroyed, ever_recognized, inputs>>

NextFilter == DoFilterAndConvert

SpecFilter == InitFilter /\ [][NextFilter]_vars

(***************************************************************************)
(* The calls of the loop body made by a caller that counts its frames from *)
(* a number of its own choice, negative numbers included: DetectSections   *)
(* and TrackWaves take frame_number as an int and do not look at its sign. *)
(***************************************************************************)
InitBoundary ==
    /\ tracked_waves = <<>>
    /\ recognized_waves = <<>>
    /\ tmp_sections = <<>>
    /\ binary_image = {}
    /\ frame_number \in -2..1
    /\ number_of_frames = 2
    /\ id = 0
    /\ pc = "read"
    /\ destroyed = {}
    /\ ever_recognized = {}
    /\ before = <<<<>>, <<>>>>
    /\ inputs = DriverFrames

SpecBoundary == InitBoundary /\ [][Next]_vars

(***************************************************************************)
(* Properties of the Wave update cycle (SpecWave, SpecHistory).  before    *)
(* holds tracked_waves and recognized_waves as they were when the last     *)
(* step began.                                                             *)
(***************************************************************************)
\* C1 (monotonic recognition): a Wave that was recognized in some earlier
\* state of the run (its name is in ever_recognized) is recognized in the
\* current state: recognized_ never goes back from true to false.
C1_MonotonicRecognition ==
    \A i \in 1..Len(tracked_waves) :
        tracked_waves[i].name_ \in ever_recognized => tracked_waves[i].recognized_

\* A Wave recognized one cycle ago has lost all its pixels and is still
\* recognized.
C1_Witness ==
    /\ Len(tracked_waves) = 1 /\ Len(before[1]) = 1
    /\ before[1][1].recognized_
    /\ before[1][1].mass_ >= kMassThreshold
    /\ tracked_waves[1].mass_ = 0
    /\ tracked_waves[1].recognized_

\* C2 (recognition requires both signals): a recognized Wave has
\* max_mass_ >= kMassThreshold and max_displacement_ >= kDisplacementThreshold;
\* a Wave that reached only one of the two thresholds is not recognized.
C2_RecognitionNeedsBoth ==
    \A i \in 1..Len(tracked_waves) :
        tracked_waves[i].recognized_ =>
            /\ tracked_waves[i].max_mass_ >= kMassThreshold
            /\ tracked_waves[i].max_displacement_ >= kDisplacementThreshold

\* A Wave updated at least twice whose mass passed its threshold while its
\* displacement did not: it is not recognized.
C2_Witness ==
    /\ Len(tracked_waves) = 1
    /\ frame_number > 3
    /\ tracked_waves[1].max_mass_ >= kMassThreshold
    /\ tracked_waves[1].max_displacement_ < kDisplacementThreshold
    /\ ~tracked_waves[1].recognized_

\* C3 (death is sticky), as the specification states it: an update cycle run
\* on a Wave whose death_ is not -1 leaves death_ as it was.
C3_DeathSticky ==
    \A i \in 1..Len(tracked_waves) :
        (i <= Len(before[1]) /\ before[1][i].death_ # -1) =>
            tracked_waves[i].death_ = before[1][i].death_

\* C8 (bounded history): centroid_vec_ and displacement_vec_ never hold more
\* than kTrackingHistory entries; after more than kTrackingHistory update
\* cycles they hold exactly kTrackingHistory; and each cycle appends the new
\* centroid_ / displacement_ at the back, evicting the oldest entry at the
\* front when the vector was full, so the entries are the most recent ones
\* in chronological order.
Pushed(prev, val) ==
    IF Len(prev) < kTrackingHistory THEN Append(prev, val)
    ELSE Append(Tail(prev), val)

C8_BoundedHistory ==
    \A i \in 1..Len(tracked_waves) :
        LET w == tracked_waves[i]
            cycles == frame_number - 1 - w.birth_
        IN  /\ Len(w.centroid_vec_) <= kTrackingHistory
            /\ Len(w.displacement_vec_) <= kTrackingHistory
            /\ cycles > kTrackingHistory =>
                  /\ Len(w.centroid_vec_) = kTrackingHistory
                  /\ Len(w.displacement_vec_) = kTrackingHistory
            /\ i <= Len(before[1]) =>
                  /\ w.centroid_vec_ = Pushed(before[1][i].centroid_vec_, w.centroid_)
                  /\ w.displacement_vec_ =
                        Pushed(before[1][i].displacement_vec_, w.displacement_)

\* After more than kTrackingHistory cycles the vectors are full, and the
\* oldest centroid kept differs from the newest.
C8_Witness ==
    /\ Len(tracked_waves) = 1
    /\ frame_number - 1 - tracked_waves[1].birth_ > kTrackingHistory
    /\ Len(tracked_waves[1].centroid_vec_) = kTrackingHistory
    /\ Len(tracked_waves[1].displacement_vec_) = kTrackingHistory
    /\ tracked_waves[1].centroid_vec_[1] # tracked_waves[1].centroid_vec_[kTrackingHistory]

(***************************************************************************)
(* Properties of RemoveDeadWaves and RemoveDuplicateWaves (SpecOps): in a  *)
(* state with pc = "dedup" RemoveDeadWaves has just returned, with         *)
(* pc = "admit" RemoveDuplicateWaves has, and before holds the arguments   *)
(* of the call.                                                            *)
(***************************************************************************)
Alive(w) == w.death_ = -1
DeadRecognized(w) == w.death_ # -1 /\ w.recognized_
DeadUnrecognized(w) == w.death_ # -1 /\ ~w.recognized_

\* C4: after RemoveDeadWaves no Wave with death_ # -1 is left in
\* tracked_waves, and tracked_waves is exactly the subsequence of the Waves
\* with death_ = -1 of the vector before the call: all of them, unmodified,
\* in the same relative order.
C4_ReapKeepsTheLiving ==
    pc = "dedup" =>
        /\ \A i \in 1..Len(tracked_waves) : tracked_waves[i].death_ = -1
        /\ tracked_waves = SelectSeq(before[1], Alive)

\* Two dead Waves in a row between two live ones were removed.
C4_Witness ==
    /\ pc = "dedup"
    /\ Len(before[1]) >= 3
    /\ Alive(before[1][1])
    /\ ~Alive(before[1][2])
    /\ ~Alive(before[1][3])
    /\ Len(tracked_waves) >= 1

\* C5: after RemoveDeadWaves recognized_waves is its previous content
\* followed by the removed Waves that are recognized, in the order of their
\* removal (their order in tracked_waves); a removed Wave that is not
\* recognized is neither in tracked_waves nor in recognized_waves.
C5_ReapPartitionsTheDead ==
    pc = "dedup" =>
        /\ recognized_waves = before[2] \o SelectSeq(before[1], DeadRecognized)
        /\ \A i \in 1..Len(before[1]) :
              DeadUnrecognized(before[1][i]) =>
                  /\ before[1][i] \notin Range(tracked_waves)
                  /\ before[1][i] \notin Range(recognized_waves)

\* Two recognized dead Waves were appended to a non-empty archive, and an
\* unrecognized dead Wave was dropped.
C5_Witness ==
    /\ pc = "dedup"
    /\ before[2] # <<>>
    /\ Len(recognized_waves) = Len(before[2]) + 2
    /\ \E i \in 1..Len(before[1]) : DeadUnrecognized(before[1][i])

\* C9: when tracked_waves held exactly two Waves with distinct birth frames
\* and left_y of the younger lies within the left-edge span of the search ROI
\* of the older, RemoveDuplicateWaves leaves exactly the older one, in
\* either order of the two in the input.
C9_OlderOfTwoSurvives ==
    (pc = "admit" /\ Len(before[1]) = 2) =>
        \A o, y \in 1..2 :
            (/\ before[1][o].birth_ < before[1][y].birth_
             /\ LeftY(before[1][y]) >= before[1][o].searchroi_coors_[1][1][2]
             /\ LeftY(before[1][y]) <= before[1][o].searchroi_coors_[1][4][2])
            => tracked_waves = <<before[1][o]>>

\* The older Wave came first in the input, the younger was its duplicate
\* and the older is what is left.
C9_Witness ==
    /\ pc = "admit"
    /\ Len(before[1]) = 2
    /\ before[1][1].birth_ < before[1][2].birth_
    /\ InShadow(LeftY(before[1][2]), before[1][1])
    /\ tracked_waves = <<before[1][1]>>

\* C10, as the specification states it: every Wave whose left_y lies within
\* the search ROI left-edge span of an older Wave of the input is absent
\* after RemoveDuplicateWaves.
C10_EveryDuplicateRemoved ==
    pc = "admit" =>
        \A i, j \in 1..Len(before[1]) :
            (/\ before[1][j].birth_ < before[1][i].birth_
             /\ InShadow(LeftY(before[1][i]), before[1][j]))
            => before[1][i] \notin Range(tracked_waves)

\* The order the specification gives the Waves: by birth frame, then by id.
OlderThan(a, b) ==
    a.birth_ < b.birth_ \/ (a.birth_ = b.birth_ /\ a.name_ < b.name_)

\* C11, as the specification states it: RemoveDuplicateWaves never removes
\* the Wave with the strictly smallest birth frame; it removes a Wave only
\* when left_y of that Wave lies in the search ROI of an older Wave of the
\* input (older by birth frame, then by id), never because of a younger
\* one; it adds no Wave and changes no field of a Wave it leaves.
C11_DedupKeepsTheOldest ==
    pc = "admit" =>
        /\ \A i \in 1..Len(before[1]) :
              (\A j \in 1..Len(before[1]) :
                  j # i => before[1][i].birth_ < before[1][j].birth_)
              => before[1][i] \in Range(tracked_waves)
        /\ \A i \in 1..Len(before[1]) :
              before[1][i] \notin Range(tracked_waves) =>
                  \E j \in 1..Len(before[1]) :
                      /\ OlderThan(before[1][j], before[1][i])
                      /\ InShadow(LeftY(before[1][i]), before[1][j])
        /\ Range(tracked_waves) \subseteq Range(before[1])
        /\ Len(tracked_waves) <= Len(before[1])

\* C12, as the specification states it: when RemoveDuplicateWaves returns,
\* tracked_waves is sorted by ascending birth frame, Waves of equal birth
\* frame by ascending id.
C12_SortedByBirthThenId ==
    pc = "admit" =>
        \A i, j \in 1..Len(tracked_waves) :
            i < j => OlderThan(tracked_waves[i], tracked_waves[j])

\* C13, as the specification states it: of two Waves of the same birth
\* frame, each with left_y in the search ROI of the other, the one with the
\* higher id is removed by RemoveDuplicateWaves, and the one with the lower
\* id is left (when it lies in the search ROI of no third Wave), whatever
\* the order of the input.
C13_LowerIdSurvivesTie ==
    pc = "admit" =>
        \A i, j \in 1..Len(before[1]) :
            (/\ before[1][i].birth_ = before[1][j].birth_
             /\ before[1][i].name_ < before[1][j].name_
             /\ InShadow(LeftY(before[1][i]), before[1][j])
             /\ InShadow(LeftY(before[1][j]), before[1][i]))
            => /\ before[1][j] \notin Range(tracked_waves)
               /\ (\A k \in 1..Len(before[1]) :
                      (k # i /\ k # j) => ~InShadow(LeftY(before[1][i]), before[1][k]))
                  => before[1][i] \in Range(tracked_waves)

(***************************************************************************)
(* Properties of the driver (Spec).                                        *)
(***************************************************************************)
\* The names of the Waves destroyed by RemoveDuplicateWaves.
DedupedNames == {d.wave.name_ : d \in {e \in destroyed : e.by = "RemoveDuplicateWaves"}}

ArchivedTimes(name) ==
    Cardinality({i \in 1..Len(recognized_waves) : recognized_waves[i].name_ = name})

\* C6, as the specification states it: when the driver has processed all
\* the frames, every Wave that was recognized at some point is in
\* recognized_waves exactly once.
C6_EveryRecognizedArchived ==
    pc = "done" => \A name \in ever_recognized : ArchivedTimes(name) = 1

\* C6, amended: when the driver has processed all the frames, every Wave
\* that was recognized at some point and was not removed by
\* RemoveDuplicateWaves is in recognized_waves exactly once; one removed by
\* RemoveDuplicateWaves is not in it.
C6_RecognizedArchivedUnlessDeduped ==
    pc = "done" =>
        \A name \in ever_recognized :
            ArchivedTimes(name) = IF name \in DedupedNames THEN 0 ELSE 1

\* The run is over; one recognized Wave is archived and another one was
\* removed as a duplicate.
C6_Witness ==
    /\ pc = "done"
    /\ \E name \in ever_recognized : name \in DedupedNames
    /\ \E name \in ever_recognized : ArchivedTimes(name) = 1

\* Every Wave that was admitted to tracked_waves, as it is now or as it was
\* when it was destroyed.
Admitted ==
    Range(tracked_waves) \cup Range(recognized_waves) \cup {d.wave : d \in destroyed}

IsTracked(w) == \E i \in 1..Len(tracked_waves) : tracked_waves[i].name_ = w.name_

\* C7, as the specification states it: after each complete pass of the
\* driver over a frame, death_ = -1 if and only if the Wave is in
\* tracked_waves, for every Wave ever admitted.
C7_AliveIffTracked ==
    pc = "read" => \A w \in Admitted : (w.death_ = -1) <=> IsTracked(w)

\* C7, amended: after each complete pass, every Wave in tracked_waves has
\* death_ = -1, and an admitted Wave with death_ = -1 is either in
\* tracked_waves or was removed by RemoveDuplicateWaves (which destroys it
\* without setting death_).
C7_TrackedAliveDeadGone ==
    pc = "read" =>
        \A w \in Admitted :
            /\ IsTracked(w) => w.death_ = -1
            /\ w.death_ = -1 => (IsTracked(w) \/ w.name_ \in DedupedNames)
            /\ w.name_ \in DedupedNames => (w.death_ = -1 /\ ~IsTracked(w))

\* A pass has ended with a Wave tracked, a Wave removed by RemoveDeadWaves
\* and a Wave removed by RemoveDuplicateWaves.
C7_Witness ==
    /\ pc = "read"
    /\ tracked_waves # <<>>
    /\ DedupedNames # {}
    /\ \E w \in Admitted : w.death_ # -1

(***************************************************************************)
(* Properties of AddNewSectionsToTrackedWaves (SpecAdmit).  In a state     *)
(* with pc = "read" reached by DoAddNewSections, before holds              *)
(* tracked_waves, recognized_waves and tmp_sections as they were when the  *)
(* step began, and the frame it belongs to is frame_number - 1.            *)
(***************************************************************************)
AdmitDone == pc = "read" /\ Len(before) = 3

\* Candidate k of the call was added to tracked_waves.
WasAdmitted(k) == \E i \in 1..Len(tracked_waves) : tracked_waves[i] = before[3][k]

\* left_y of Candidate k lies in the search ROI of a Wave that was in
\* tracked_waves when Candidate k was examined: one that was there before
\* the call, or an earlier Candidate added by the call.
Covered(k) ==
    \/ \E i \in 1..Len(before[1]) : InShadow(LeftY(before[3][k]), before[1][i])
    \/ \E m \in 1..(k - 1) :
          WasAdmitted(m) /\ InShadow(LeftY(before[3][k]), before[3][m])

\* C14: a Candidate whose left_y lies within the search ROI left-edge span
\* of a Wave that is in tracked_waves when the Candidate is examined is not
\* added: no Wave of tracked_waves has its name afterwards.
C14_CoveredNotAdmitted ==
    AdmitDone =>
        \A k \in 1..Len(before[3]) :
            Covered(k) =>
                \A i \in 1..Len(tracked_waves) :
                    tracked_waves[i].name_ # before[3][k].name_

\* One call met a Candidate covered by a Wave tracked before the call, a
\* Candidate covered only by a Candidate added earlier in the call, and
\* added that one.
C14_Witness ==
    /\ AdmitDone
    /\ \E k \in 1..Len(before[3]) :
          \E i \in 1..Len(before[1]) : InShadow(LeftY(before[3][k]), before[1][i])
    /\ \E k \in 1..Len(before[3]) :
          /\ Covered(k)
          /\ \A i \in 1..Len(before[1]) : ~InShadow(LeftY(before[3][k]), before[1][i])
    /\ Len(tracked_waves) = Len(before[1]) + 1

IsAdmitted(section) == section \in Range(tracked_waves)

\* C15: when AddNewSectionsToTrackedWaves runs (not in the last frame), every
\* Candidate that is not covered is added; tracked_waves is then what it was
\* before the call, unchanged and in place, followed by the added
\* Candidates in the order they were met; every added Wave has birth_ = the
\* current frame, death_ = -1, recognized_ = FALSE and displacement_ =
\* max_displacement_ = 0.
C15_UncoveredAdmitted ==
    (AdmitDone /\ frame_number - 1 < number_of_frames) =>
        /\ \A k \in 1..Len(before[3]) : ~Covered(k) => WasAdmitted(k)
        /\ tracked_waves = before[1] \o SelectSeq(before[3], IsAdmitted)
        /\ \A k \in 1..Len(before[3]) :
              WasAdmitted(k) =>
                  /\ before[3][k].birth_ = frame_number - 1
                  /\ before[3][k].death_ = -1
                  /\ before[3][k].recognized_ = FALSE
                  /\ before[3][k].displacement_ = 0
                  /\ before[3][k].max_displacement_ = 0

\* Two Candidates were added behind a Wave tracked before the call.
C15_Witness ==
    /\ AdmitDone
    /\ frame_number - 1 < number_of_frames
    /\ Len(before[1]) >= 1
    /\ Len(before[3]) = 2
    /\ Len(tracked_waves) = Len(before[1]) + 2

(***************************************************************************)
(* Properties of the last frame of the driver (Spec).                      *)
(***************************************************************************)
\* C16: in the pass over the last frame (frame_number = number_of_frames)
\* TrackWaves leaves every Wave of tracked_waves with death_ =
\* number_of_frames, whether its points_ are empty or not; RemoveDeadWaves
\* then empties tracked_waves; AddNewSectionsToTrackedWaves does not run, so
\* tracked_waves is empty when the pass is complete and when the loop ends.
C16_EndOfSequence ==
    /\ (pc = "reap" /\ frame_number = number_of_frames) =>
          \A i \in 1..Len(tracked_waves) :
              tracked_waves[i].death_ = number_of_frames
    /\ (pc \in {"dedup", "admit"} /\ frame_number = number_of_frames) =>
          tracked_waves = <<>>
    /\ (pc = "read" /\ frame_number = number_of_frames + 1) => tracked_waves = <<>>
    /\ pc = "done" => tracked_waves = <<>>

\* The pass over the last frame is complete: a Wave that still had points
\* got death_ = number_of_frames, and sections detected in the frame were
\* waiting when the admission was skipped.
C16_Witness ==
    /\ pc = "read"
    /\ frame_number = number_of_frames + 1
    /\ Len(before) = 3
    /\ before[3] # <<>>
    /\ tracked_waves = <<>>
    /\ \E w \in Admitted : w.death_ = number_of_frames /\ w.points_ # {}

(***************************************************************************)
(* Properties of the driver on a static scene (SpecStatic).                *)
(***************************************************************************)
\* C17: on a scene that does not change, a Wave is never recognized, it
\* stays in tracked_waves until the last frame, where it gets death_ =
\* number_of_frames with recognized_ = FALSE and is destroyed by
\* RemoveDeadWaves; recognized_waves is empty during the run and at its end.
C17_StaticSceneRejected ==
    /\ \A i \in 1..Len(tracked_waves) :
          /\ ~tracked_waves[i].recognized_
          /\ tracked_waves[i].max_displacement_ = 0
          /\ tracked_waves[i].death_ \in {-1, number_of_frames}
    /\ recognized_waves = <<>>
    /\ ever_recognized = {}
    /\ \A d \in destroyed :
          /\ d.by = "RemoveDeadWaves"
          /\ d.wave.death_ = number_of_frames
          /\ ~d.wave.recognized_
    /\ pc = "done" =>
          /\ tracked_waves = <<>>
          /\ number_of_frames >= 2 => destroyed # {}

\* The run is over: a Wave born in frame 1 whose mass passed kMassThreshold
\* and whose displacement stayed 0 over at least three update cycles was
\* discarded.
C17_Witness ==
    /\ pc = "done"
    /\ number_of_frames >= 4
    /\ recognized_waves = <<>>
    /\ \E d \in destroyed :
          /\ d.wave.birth_ = 1
          /\ d.wave.max_mass_ >= kMassThreshold
          /\ d.wave.mass_ >= kMassThreshold
          /\ d.wave.max_displacement_ = 0
          /\ d.wave.death_ = number_of_frames

(***************************************************************************)
(* Properties of KeepContour (SpecDetect).  In a state with pc = "track"   *)
(* DetectSections has returned tmp_sections for the blobs of binary_image. *)
(***************************************************************************)
\* The contour of the blob was kept: a section was made of it.
Kept(rect) ==
    \E i \in 1..Len(tmp_sections) : tmp_sections[i].points_ = ContourPoints(rect)

\* The inertia ratio of a rectangular contour with sides a # b is
\* (min(a, b) / max(a, b))^2; that of a square is set to 1.  The contour
\* passes the inertia test when the ratio is in [0, 1/10).
InertiaInRange(rect) ==
    LET a == rect[3] - rect[1]
        b == rect[4] - rect[2]
        lo == IF a < b THEN a ELSE b
        hi == IF a < b THEN b ELSE a
    IN  a # b /\ 10 * lo * lo < hi * hi

\* C19: every contour with m00 < kMinArea is rejected, whatever its shape;
\* a contour with m00 = kMinArea is not rejected by the area test: it is
\* kept exactly when its inertia ratio is in range.
C19_AreaFilter ==
    pc = "track" =>
        \A rect \in binary_image :
            /\ moments(rect).m00 < kMinArea => ~Kept(rect)
            /\ moments(rect).m00 = kMinArea => (Kept(rect) <=> InertiaInRange(rect))

\* An oblong contour below kMinArea was rejected next to a contour with
\* m00 = kMinArea that was kept.
C19_Witness ==
    /\ pc = "track"
    /\ \E rect \in binary_image :
          moments(rect).m00 < kMinArea /\ InertiaInRange(rect) /\ ~Kept(rect)
    /\ \E rect \in binary_image : moments(rect).m00 = kMinArea /\ Kept(rect)

Degenerate(moms) == moms.mu11 = 0 /\ moms.mu20 = moms.mu02

\* C20: for a contour that passes the area test and has denom <= eps
\* (mu11 = 0 and mu20 = mu02) the ratio is 1 (it is below r exactly for the
\* fractions r above 1), and the contour is rejected.
C20_DegenerateRejected ==
    pc = "track" =>
        \A rect \in binary_image :
            (moments(rect).m00 >= kMinArea /\ Degenerate(moments(rect))) =>
                /\ \A r \in {<<9, 10>>, <<1, 1>>, <<11, 10>>} :
                      RatioLt(moments(rect), r) <=> r[1] > r[2]
                /\ ~Kept(rect)

\* A square contour that passes the area test was rejected next to a
\* contour that was kept.
C20_Witness ==
    /\ pc = "track"
    /\ \E rect \in binary_image :
          moments(rect).m00 >= kMinArea /\ Degenerate(moments(rect)) /\ ~Kept(rect)
    /\ tmp_sections # <<>>

(***************************************************************************)
(* The end-to-end scenario (SpecScenario).                                 *)
(***************************************************************************)
\* C18, as stated: the run over the sequence ends with exactly one archived
\* Wave, born at frame 5 and recognized.
C18_OneRecognizedBornAtFive ==
    pc = "done" =>
        /\ Len(recognized_waves) = 1
        /\ recognized_waves[1].birth_ = 5
        /\ recognized_waves[1].recognized_

\* C18, as the code has it: the contour of the 40 x 40 blob is symmetric
\* (mu11 = 0, mu20 = mu02), its inertia ratio is 1 and KeepContour rejects
\* it in every frame; no section is detected, no Wave is ever constructed,
\* and the run ends with nothing tracked and nothing archived.
C18_SquareBlobNeverTracked ==
    /\ tmp_sections = <<>>
    /\ tracked_waves = <<>>
    /\ recognized_waves = <<>>
    /\ id = 0
    /\ \A rect \in binary_image :
          moments(rect).m00 >= kMinArea /\ Degenerate(moments(rect))

\* The run has ended after ScenarioFrames frames, with the blob 15 rows or
\* more below the place where it appeared.
C18_Witness ==
    /\ pc = "done"
    /\ frame_number = ScenarioFrames + 1
    /\ \E rect \in binary_image : rect[2] >= 60 + 15 /\ rect[4] - rect[2] = 39
    /\ recognized_waves = <<>>

(***************************************************************************)
(* Identity of the Waves (Spec).                                           *)
(***************************************************************************)
\* The names of the Waves that are tracked, archived or destroyed.
NamesInUse ==
    {w.name_ : w \in Range(tracked_waves) \cup Range(recognized_waves)}
    \cup {d.wave.name_ : d \in destroyed}

\* C21: a Wave is named at its construction with a number above every name
\* given before (the sections of a frame are named in the order of their
\* construction, up to the counter); the Waves that are tracked or archived
\* have pairwise distinct names, and the name of a destroyed Wave is borne
\* by no Wave that is tracked, archived or just detected.
C21_Identity ==
    LET live == tracked_waves \o recognized_waves
    IN  /\ \A i, j \in 1..Len(live) : i # j => live[i].name_ # live[j].name_
        /\ \A n \in NamesInUse : 1 <= n /\ n <= id
        /\ \A k \in 1..Len(tmp_sections) :
              /\ tmp_sections[k].name_ = id - Len(tmp_sections) + k
              /\ \A n \in NamesInUse : n < tmp_sections[k].name_
        /\ \A d \in destroyed :
              \A i \in 1..Len(live) : live[i].name_ # d.wave.name_

\* A Wave has been destroyed, another is tracked, one is archived, and the
\* frame has brought new sections.
C21_Witness ==
    /\ destroyed # {}
    /\ tracked_waves # <<>>
    /\ recognized_waves # <<>>
    /\ tmp_sections # <<>>

(***************************************************************************)
(* Properties of FilterAndConvert (SpecFilter).                            *)
(***************************************************************************)
\* The contour of the blob passes both tests of KeepContour.
Passes(rect) == moments(rect).m00 >= kMinArea /\ InertiaInRange(rect)

\* C22: the sections FilterAndConvert returns are the Waves of exactly the
\* contours that pass both tests, born in frame_number, in the order in
\* which the contours were passed in.
C22_FilterResult ==
    pc = "track" =>
        LET passed == SelectSeq(before[1], Passes)
        IN  /\ Len(tmp_sections) = Len(passed)
            /\ \A k \in 1..Len(passed) :
                  /\ tmp_sections[k].points_ = ContourPoints(passed[k])
                  /\ tmp_sections[k].birth_ = frame_number

\* Two contours of different shapes were accepted.
C22_Witness ==
    /\ pc = "track"
    /\ Len(before[1]) = 2
    /\ Len(tmp_sections) = 2
    /\ tmp_sections[1].mass_ # tmp_sections[2].mass_

\* C23, as stated: the vector of contours passed in is unchanged by the call.
C23_ContoursUnchanged ==
    pc = "track" => before[2] = before[1]

\* C23, as the code has it: FilterAndConvert erases the rejected contours
\* from the vector passed in, and leaves in it the accepted contours, in
\* their order.
C23_RejectedContoursErased ==
    pc = "track" => before[2] = SelectSeq(before[1], Passes)

\* One contour of two was rejected, and is gone from the vector.
C23_Witness ==
    /\ pc = "track"
    /\ Len(before[1]) = 2
    /\ Len(before[2]) = 1
    /\ Len(tmp_sections) = 1

(***************************************************************************)
(* Locality of TrackWaves (Spec).                                          *)
(***************************************************************************)
\* The for loop of TrackWaves with its iterations taken in the order
\* order[k], order[k + 1], ... instead of 0, 1, 2, ...
RECURSIVE TrackWavesInOrder(_, _, _, _, _, _)
TrackWavesInOrder(sections, order, k, frame, frame_no, n_frames) ==
    IF k > Len(sections) THEN sections
    ELSE TrackWavesInOrder(
             [sections EXCEPT ![order[k]] = TrackWave(@, frame, frame_no, n_frames)],
             order, k + 1, frame, frame_no, n_frames)

C25_NegativeFrameRejected ==
    /\ frame_number < 0 => pc \in {"read", "failed"}
    /\ \A w \in Range(tracked_waves) \cup Range(tmp_sections) \cup Range(recognized_waves) :
          w.birth_ >= 0 /\ w.death_ >= -1

(***************************************************************************)
(* The death transition (Spec).                                            *)
(***************************************************************************)
\* No pixel of the frame lies in the search ROI roi.
NoPixelInRoi(frame, roi) ==
    \A rect \in frame :
        \A x \in rect[1]..rect[3], y \in rect[2]..rect[4] : ~InRoi(roi, x, y)

\* C26: when TrackWaves updates a Wave with death_ = -1 in a frame that is
\* not the last, it sets death_ to frame_number if no pixel of the frame
\* lies in the search ROI of the Wave (its points are empty), and leaves
\* death_ at -1 otherwise.
C26_DeathTransition ==
    [][(pc = "track" /\ pc' = "reap" /\ frame_number < number_of_frames) =>
          \A i \in 1..Len(tracked_waves) :
              tracked_waves[i].death_ = -1 =>
                  LET roi == update_searchroi_coors(tracked_waves[i]).searchroi_coors_[1]
                      empty == NoPixelInRoi(binary_image, roi)
                  IN  /\ empty <=> tracked_waves'[i].points_ = {}
                      /\ tracked_waves'[i].death_ = IF empty THEN frame_number ELSE -1]_vars

\* In a frame that is not the last, TrackWaves has run on two live Waves:
\* one has found no points and died, the other lives.
C26_Witness ==
    /\ pc = "reap"
    /\ Len(before) = 2
    /\ frame_number < number_of_frames
    /\ \E i, j \in 1..Len(tracked_waves) :
          /\ before[1][i].death_ = -1
          /\ tracked_waves[i].death_ = frame_number
          /\ tracked_waves[i].points_ = {}
          /\ tracked_waves[j].death_ = -1

(***************************************************************************)
(* The update cycle on an empty representation (SpecWave).                 *)
(***************************************************************************)
\* C27: an update cycle that finds no points yields centroid_ = (-1, -1),
\* pushed on centroid_vec_, mass_ = 0, and the displacement_ of the frame
\* before, pushed on displacement_vec_; max_mass_, max_displacement_,
\* recognized_ and boundingbox_coors_ are those of the frame before.
C27_EmptyRepresentation ==
    \A i \in 1..Len(tracked_waves) :
        (i <= Len(before[1]) /\ tracked_waves[i].points_ = {}) =>
            LET w == tracked_waves[i]
                o == before[1][i]
            IN  /\ w.centroid_ = <<-1, -1>>
                /\ w.centroid_vec_ = Pushed(o.centroid_vec_, <<-1, -1>>)
                /\ w.mass_ = 0
                /\ w.displacement_ = o.displacement_
                /\ w.displacement_vec_ = Pushed(o.displacement_vec_, o.displacement_)
                /\ w.max_mass_ = o.max_mass_
                /\ w.max_displacement_ = o.max_displacement_
                /\ w.recognized_ = o.recognized_
                /\ w.boundingbox_coors_ = o.boundingbox_coors_

\* A Wave that had moved from its axis has found no points in this cycle.
C27_Witness ==
    /\ Len(tracked_waves) = 1
    /\ Len(before[1]) = 1
    /\ tracked_waves[1].points_ = {}
    /\ before[1][1].points_ # {}
    /\ before[1][1].displacement_ > 0
    /\ before[1][1].boundingbox_coors_ # <<>>

(***************************************************************************)
(* The running maxima (SpecWave).  Its runs are shorter than               *)
(* kTrackingHistory, so that displacement_vec_ holds the displacement_ of  *)
(* every cycle of the Wave.                                                *)
(***************************************************************************)
\* C28: max_mass_ is the mass_ of the construction for a new Wave and the
\* greater of the max_mass_ before and the mass_ after each cycle (hence the
\* maximum of mass_ so far); max_displacement_ is the maximum of the
\* displacement_ of all cycles so far (0 for a new Wave); neither decreases
\* in a cycle, and neither is below the current mass_ / displacement_.
C28_RunningMaxima ==
    \A i \in 1..Len(tracked_waves) :
        LET w == tracked_waves[i]
        IN  /\ w.max_mass_ >= w.mass_
            /\ w.max_displacement_ >= w.displacement_
            /\ w.max_displacement_ = Max(Range(w.displacement_vec_) \cup {0})
            /\ IF i <= Len(before[1])
               THEN LET o == before[1][i]
                    IN  /\ w.max_mass_ = Max({o.max_mass_, w.mass_})
                        /\ w.max_mass_ >= o.max_mass_
                        /\ w.max_displacement_ = Max({o.max_displacement_, w.displacement_})
                        /\ w.max_displacement_ >= o.max_displacement_
               ELSE w.max_mass_ = w.mass_ /\ w.max_displacement_ = 0

\* After a cycle the mass_ and the displacement_ of the Wave are both below
\* maxima that earlier cycles have set.
C28_Witness ==
    /\ Len(tracked_waves) = 1
    /\ Len(before[1]) = 1
    /\ tracked_waves[1].points_ # {}
    /\ tracked_waves[1].mass_ < tracked_waves[1].max_mass_
    /\ tracked_waves[1].displacement_ < tracked_waves[1].max_displacement_
    /\ Len(tracked_waves[1].displacement_vec_) >= 3

(***************************************************************************)
(* The identity fields (Spec).  Its runs are shorter than kTrackingHistory,*)
(* so that centroid_vec_[1] is the centroid of the construction.           *)
(***************************************************************************)
Identity(w) == <<w.name_, w.birth_, w.axis_angle_, w.original_axis_>>

\* C29: TrackWaves leaves name_, birth_, axis_angle_ and original_axis_ of
\* every Wave as they were; the Waves that RemoveDeadWaves,
\* RemoveDuplicateWaves and AddNewSectionsToTrackedWaves leave tracked or
\* archived bear the identity fields of a Wave that was tracked, archived or
\* detected before the call; and original_axis_ is the axis that the
\* constructor set from the first centroid.
C29_IdentityFieldsImmutable ==
    [][pc # "read" =>
          /\ pc = "track" =>
                /\ Len(tracked_waves') = Len(tracked_waves)
                /\ \A i \in 1..Len(tracked_waves) :
                      Identity(tracked_waves'[i]) = Identity(tracked_waves[i])
          /\ \A v \in Range(tracked_waves') \cup Range(recognized_waves') :
                /\ \E w \in Range(tracked_waves) \cup Range(recognized_waves)
                              \cup Range(tmp_sections) :
                      Identity(v) = Identity(w)
                /\ v.axis_angle_ = kWaveAngle
                /\ v.original_axis_ =
                      set_original_axis([v EXCEPT !.centroid_ = v.centroid_vec_[1]]).original_axis_]_vars

\* A Wave is tracked whose centroid has left the place of its construction,
\* and another has been archived.
C29_Witness ==
    /\ pc = "read"
    /\ recognized_waves # <<>>
    /\ \E i \in 1..Len(tracked_waves) :
          /\ Len(tracked_waves[i].centroid_vec_) >= 3
          /\ tracked_waves[i].centroid_ # tracked_waves[i].centroid_vec_[1]
          /\ tracked_waves[i].centroid_ # <<-1, -1>>

(***************************************************************************)
(* C30: shape of the search ROI.                                           *)
(***************************************************************************)
\* The centroid that the search ROI of w was computed from: the centroid of
\* the constructor for a Wave that no cycle has updated, and otherwise the
\* centroid of the cycle before the last, since TrackWaves calls
\* update_searchroi_coors ahead of update_centroid.
RoiCentroid(w) ==
    IF Len(w.centroid_vec_) = 1
    THEN w.centroid_
    ELSE w.centroid_vec_[Len(w.centroid_vec_) - 1]

\* The search ROI of w is one polygon of four vertices, upper-left,
\* upper-right, lower-right, lower-left, at x = 0, W, W, 0, each edge
\* 2 * kSearchRegionBuffer high, and the left edge is centred on the left_y
\* of the centroid it was computed from.
RoiShape(w) ==
    /\ Len(w.searchroi_coors_) = 1
    /\ Len(w.searchroi_coors_[1]) = 4
    /\ w.searchroi_coors_[1][1][1] = 0
    /\ w.searchroi_coors_[1][2][1] = kAnalysisFrameWidth
    /\ w.searchroi_coors_[1][3][1] = kAnalysisFrameWidth
    /\ w.searchroi_coors_[1][4][1] = 0
    /\ w.searchroi_coors_[1][4][2] - w.searchroi_coors_[1][1][2] = 2 * kSearchRegionBuffer
    /\ w.searchroi_coors_[1][3][2] - w.searchroi_coors_[1][2][2] = 2 * kSearchRegionBuffer
    /\ w.searchroi_coors_[1][1][2] =
          RoiCentroid(w)[2] + TruncTan(RoiCentroid(w)[1]) - kSearchRegionBuffer
    /\ w.searchroi_coors_[1][4][2] =
          RoiCentroid(w)[2] + TruncTan(RoiCentroid(w)[1]) + kSearchRegionBuffer

\* C30: in every state the search ROI of every Wave, tracked, archived or
\* just detected, has the shape RoiShape.
C30_SearchRoiShape ==
    \A w \in Range(tracked_waves) \cup Range(recognized_waves) \cup Range(tmp_sections) :
        RoiShape(w)

\* A Wave has been tracked for two cycles or more and its centroid has moved
\* in the last one, so that its search ROI is that of the centroid before.
C30_Witness ==
    \E i \in 1..Len(tracked_waves) :
        /\ Len(tracked_waves[i].centroid_vec_) >= 3
        /\ tracked_waves[i].centroid_ # <<-1, -1>>
        /\ RoiCentroid(tracked_waves[i]) # <<-1, -1>>
        /\ RoiCentroid(tracked_waves[i]) # tracked_waves[i].centroid_

(***************************************************************************)
(* KeepContour called with thresholds of the caller's choice, on one       *)
(* contour of the sizes of ContourSizes.  A ratio threshold is a fraction  *)
(* <<p, q>>.  After the call, before holds the arguments and the result.   *)
(***************************************************************************)
MinAreas == {50, 100, 150}
MinInertiaRatios == {<<0, 1>>, <<1, 20>>}
MaxInertiaRatios == {<<1, 10>>, <<1, 2>>, <<11, 10>>}

InitKeep ==
    /\ tracked_waves = <<>>
    /\ recognized_waves = <<>>
    /\ tmp_sections = <<>>
    /\ binary_image = {}
    /\ frame_number = 1
    /\ number_of_frames = 1
    /\ id = 0
    /\ pc = "read"
    /\ destroyed = {}
    /\ ever_recognized = {}
    /\ before = <<>>
    /\ \E size \in ContourSizes : inputs = {<<SizedBlob(size, 1)>>}

DoKeepContour ==
    /\ pc = "read"
    /\ \E frame \in inputs :
       \E min_area \in MinAreas :
       \E min_inertia_ratio \in MinInertiaRatios :
       \E max_inertia_ratio \in MaxInertiaRatios :
          /\ binary_image' = Range(frame)
          /\ before' = <<frame[1], min_area, min_inertia_ratio, max_inertia_ratio,
                         KeepContour(frame[1], min_area, min_inertia_ratio,
                                     max_inertia_ratio)>>
    /\ pc' = "track"
    /\ UNCHANGED <<tracked_waves, recognized_waves, tmp_sections, frame_number,
                   number_of_frames, id, destroyed, ever_recognized, inputs>>

NextKeep == DoKeepContour

SpecKeep == InitKeep /\ [][NextKeep]_vars

(***************************************************************************)
(* C31: KeepContour and the thresholds it is given.                        *)
(***************************************************************************)
\* The inertia ratio of a rectangular contour, (min(a, b) / max(a, b))^2 and
\* 1 for a square, is in [lo, hi) for the fractions lo and hi.
RatioWithin(rect, lo, hi) ==
    LET a == rect[3] - rect[1]
        b == rect[4] - rect[2]
        imin == IF a < b THEN a * a ELSE b * b
        imax == IF a < b THEN b * b ELSE a * a
    IN  /\ lo[1] * imax <= imin * lo[2]
        /\ imin * hi[2] < hi[1] * imax

\* C31: KeepContour(contour, min_area, min_inertia_ratio, max_inertia_ratio)
\* is true exactly when the area of the contour is at least the min_area it
\* was given and its inertia ratio is in [min_inertia_ratio,
\* max_inertia_ratio) of the arguments, whatever the arguments.
C31_ThresholdsAreTheArguments ==
    pc = "track" =>
        (before[5] <=> /\ moments(before[1]).m00 >= before[2]
                       /\ RatioWithin(before[1], before[3], before[4]))

(***************************************************************************)
(* C32: the names of the admitted Waves.                                   *)
(***************************************************************************)
\* C32: the names of the Waves that AddNewSectionsToTrackedWaves has pushed
\* to tracked_waves over the run (they are tracked, archived or destroyed
\* since) are consecutive integers: every such name but the lowest is one
\* above another, however many sections were detected and dropped.
C32_AdmittedIdsConsecutive ==
    \A n \in NamesInUse :
        \/ \A m \in NamesInUse : n <= m
        \/ (n - 1) \in NamesInUse

(***************************************************************************)
(* C33: recognition and the thresholds (SpecWave).                         *)
(***************************************************************************)
\* C33: after the constructor and after any number of update cycles,
\* recognized_ is true if and only if max_mass_ >= kMassThreshold and
\* max_displacement_ >= kDisplacementThreshold; a Wave that no cycle has
\* updated is not recognized.
C33_RecognizedIffThresholds ==
    \A i \in 1..Len(tracked_waves) :
        /\ tracked_waves[i].recognized_ <=>
              /\ tracked_waves[i].max_mass_ >= kMassThreshold
              /\ tracked_waves[i].max_displacement_ >= kDisplacementThreshold
        /\ Len(tracked_waves[i].centroid_vec_) = 1 => ~tracked_waves[i].recognized_

\* A Wave whose mass had passed its threshold a cycle before has become
\* recognized in the cycle in which its displacement passed its own.
C33_Witness ==
    /\ Len(tracked_waves) = 1 /\ Len(before[1]) = 1
    /\ ~before[1][1].recognized_
    /\ before[1][1].max_mass_ >= kMassThreshold
    /\ before[1][1].max_displacement_ < kDisplacementThreshold
    /\ tracked_waves[1].recognized_

(***************************************************************************)
(* C34: lifetime bounds (Spec).                                            *)
(***************************************************************************)
\* The number of the last frame for which TrackWaves has run.
LastTrackedFrame ==
    IF pc \in {"read", "track", "done"} THEN frame_number - 1 ELSE frame_number

\* C34: every Wave that was admitted has 1 <= birth_ < number_of_frames, and
\* if its death_ is not -1 then birth_ < death_ <= number_of_frames; a
\* tracked Wave has gone through one update cycle for each frame after
\* birth_, the first of them in frame birth_ + 1 (centroid_vec_ holds the
\* centroid of the constructor and one centroid for each cycle).
C34_LifetimeBounds ==
    /\ \A w \in Admitted :
          /\ 1 <= w.birth_ /\ w.birth_ < number_of_frames
          /\ w.death_ # -1 => (w.birth_ < w.death_ /\ w.death_ <= number_of_frames)
    /\ \A i \in 1..Len(tracked_waves) :
          Len(tracked_waves[i].centroid_vec_) - 1 =
              LastTrackedFrame - tracked_waves[i].birth_

\* The video is over; a Wave born after frame 1 has died in its first update
\* cycle, before the last frame, and another has lived to the last frame,
\* through three cycles or more.
C34_Witness ==
    /\ pc = "done"
    /\ \E w \in Admitted :
          w.birth_ > 1 /\ w.death_ = w.birth_ + 1 /\ w.death_ < number_of_frames
    /\ \E w \in Admitted :
          w.death_ = number_of_frames /\ Len(w.centroid_vec_) >= 4

(***************************************************************************)
(* C35: the tracked Waves are populated (Spec).                            *)
(***************************************************************************)
\* The Wave has pixels: its mass is positive and its centroid is a pixel of
\* the frame, not the value <<-1, -1>> of a Wave without pixels.
Populated(w) ==
    /\ w.mass_ >= 1
    /\ w.centroid_ # <<-1, -1>>
    /\ 0 <= w.centroid_[1] /\ w.centroid_[1] < kAnalysisFrameWidth
    /\ 0 <= w.centroid_[2] /\ w.centroid_[2] < kAnalysisFrameHeight

\* C35: from the return of RemoveDeadWaves to the next call of TrackWaves,
\* so after RemoveDeadWaves and after AddNewSectionsToTrackedWaves, every
\* Wave of tracked_waves is populated, and so is every section that
\* AddNewSectionsToTrackedWaves is about to look at: the left_y of
\* RemoveDuplicateWaves and of WillBeMerged is never taken from <<-1, -1>>.
C35_TrackedWavesPopulated ==
    /\ pc \in {"dedup", "admit", "read", "track", "done"} =>
          \A i \in 1..Len(tracked_waves) : Populated(tracked_waves[i])
    /\ pc = "admit" =>
          \A k \in 1..Len(tmp_sections) : Populated(tmp_sections[k])

\* In a frame that is not the last, RemoveDeadWaves has removed a Wave
\* without pixels and left another tracked.
C35_Witness ==
    /\ pc = "dedup"
    /\ frame_number < number_of_frames
    /\ tracked_waves # <<>>
    /\ \E i \in 1..Len(before[1]) :
          before[1][i].centroid_ = <<-1, -1>> /\ before[1][i].mass_ = 0

(***************************************************************************)
(* C36: tracked_waves stays ordered by age (Spec).                         *)
(***************************************************************************)
\* C36: after every complete pass of the loop body (TrackWaves,
\* RemoveDeadWaves, RemoveDuplicateWaves, AddNewSectionsToTrackedWaves)
\* tracked_waves is in non-decreasing order of birth_; the Waves that
\* AddNewSectionsToTrackedWaves has pushed were born in the frame of the
\* pass, and no Wave of tracked_waves was born later.
C36_TrackedWavesOrderedByAge ==
    pc \in {"read", "done"} =>
        /\ \A i, j \in 1..Len(tracked_waves) :
              i < j => tracked_waves[i].birth_ <= tracked_waves[j].birth_
        /\ \A i \in 1..Len(tracked_waves) :
              tracked_waves[i].birth_ <= frame_number - 1

\* A pass has ended with three Waves tracked, two of them born in the same
\* frame and one in the frame of the pass.
C36_Witness ==
    /\ pc = "read"
    /\ Len(tracked_waves) >= 3
    /\ \E i, j \in 1..Len(tracked_waves) :
          i # j /\ tracked_waves[i].birth_ = tracked_waves[j].birth_
    /\ \E i, j \in 1..Len(tracked_waves) :
          /\ tracked_waves[i].birth_ < tracked_waves[j].birth_
          /\ tracked_waves[j].birth_ = frame_number - 1

(***************************************************************************)
(* The driver on frames with bars close to each other: two bars 26 rows    *)
(* apart, the same two bars 12 rows apart, bars 10 rows apart.             *)
(***************************************************************************)
CloseFrameCount == 3
CloseFrames ==
    {<<>>, <<Bar(120), Bar(146)>>, <<Bar(126), Bar(138)>>,
     <<Bar(20), Bar(30), Bar(86)>>, <<Bar(30), Bar(40)>>}

InitClose ==
    /\ tracked_waves = <<>>
    /\ recognized_waves = <<>>
    /\ tmp_sections = <<>>
    /\ binary_image = {}
    /\ frame_number = 1
    /\ number_of_frames \in 1..CloseFrameCount
    /\ id = 0
    /\ pc = "read"
    /\ destroyed = {}
    /\ ever_recognized = {}
    /\ before = <<<<>>, <<>>>>
    /\ inputs = CloseFrames

SpecClose == InitClose /\ [][Next]_vars

(***************************************************************************)
(* C37: Waves admitted in the same frame (SpecClose).                      *)
(***************************************************************************)
\* The left_y of a and b differ by at most kSearchRegionBuffer.
Close(a, b) == Abs(LeftY(a) - LeftY(b)) <= kSearchRegionBuffer

\* C37, as the specification states it: right after
\* AddNewSectionsToTrackedWaves, any two Waves of tracked_waves with the
\* same birth_ have left_y more than kSearchRegionBuffer apart, and of two
\* sections of the frame with left_y at most kSearchRegionBuffer apart the
\* second is not added.
C37_SameBirthApart ==
    (AdmitDone /\ frame_number - 1 < number_of_frames) =>
        /\ \A i, j \in 1..Len(tracked_waves) :
              (i # j /\ tracked_waves[i].birth_ = tracked_waves[j].birth_) =>
                  ~Close(tracked_waves[i], tracked_waves[j])
        /\ \A k, m \in 1..Len(before[3]) :
              (k < m /\ Close(before[3][k], before[3][m])) => ~WasAdmitted(m)

\* C37, amended: right after AddNewSectionsToTrackedWaves, any two Waves
\* that the call has added (birth_ is the frame of the call) have left_y
\* more than kSearchRegionBuffer apart; of two sections of the frame with
\* left_y at most kSearchRegionBuffer apart the second is not added if the
\* first was, and the second is added only if the first was dropped for a
\* Wave tracked before it.
C37_SameCallAdmissionsApart ==
    (AdmitDone /\ frame_number - 1 < number_of_frames) =>
        /\ \A i, j \in 1..Len(tracked_waves) :
              (/\ i # j
               /\ tracked_waves[i].birth_ = frame_number - 1
               /\ tracked_waves[j].birth_ = frame_number - 1) =>
                  ~Close(tracked_waves[i], tracked_waves[j])
        /\ \A k, m \in 1..Len(before[3]) :
              (k < m /\ Close(before[3][k], before[3][m])) =>
                  /\ WasAdmitted(k) => ~WasAdmitted(m)
                  /\ WasAdmitted(m) => Covered(k)

\* One call has met two sections close to each other, added the first and
\* dropped the second for it, and added a third section.
C37_Witness ==
    /\ AdmitDone
    /\ frame_number - 1 < number_of_frames
    /\ \E k, m \in 1..Len(before[3]) :
          /\ k < m /\ Close(before[3][k], before[3][m])
          /\ WasAdmitted(k) /\ ~WasAdmitted(m)
          /\ \A i \in 1..Len(before[1]) : ~InShadow(LeftY(before[3][m]), before[1][i])
    /\ \E i, j \in 1..Len(tracked_waves) :
          /\ i # j
          /\ tracked_waves[i].birth_ = frame_number - 1
          /\ tracked_waves[j].birth_ = frame_number - 1

(***************************************************************************)
(* C38: integrity of recognized_waves (Spec).                              *)
(***************************************************************************)
\* C38: every step of the driver (TrackWaves, RemoveDeadWaves,
\* RemoveDuplicateWaves, AddNewSectionsToTrackedWaves, reading a frame)
\* leaves the Waves of recognized_waves as they are and in place, and adds
\* Waves at the end only; every Wave of recognized_waves is recognized and
\* has death_ # -1; recognized_waves is in non-decreasing order of death_.
C38_ArchiveIntegrity ==
    [][/\ Len(recognized_waves') >= Len(recognized_waves)
       /\ SubSeq(recognized_waves', 1, Len(recognized_waves)) = recognized_waves
       /\ \A i \in 1..Len(recognized_waves') :
             /\ recognized_waves'[i].recognized_ = TRUE
             /\ recognized_waves'[i].death_ # -1
       /\ \A i, j \in 1..Len(recognized_waves') :
             i < j => recognized_waves'[i].death_ <= recognized_waves'[j].death_]_vars

\* RemoveDeadWaves has archived a recognized Wave behind another that died
\* in an earlier frame.
C38_Witness ==
    /\ pc = "dedup"
    /\ Len(before[2]) >= 1
    /\ Len(recognized_waves) > Len(before[2])
    /\ recognized_waves[1].death_ < recognized_waves[Len(recognized_waves)].death_

(***************************************************************************)
(* C39: the removal loops and the elements they examine (SpecOps).         *)
(***************************************************************************)
\* The names of the Waves that the while loop of RemoveDeadWaves, from
\* index i, tests with "tracked_waves[i].death_ != -1".
RECURSIVE ReapExamined(_, _)
ReapExamined(tracked, i) ==
    IF i = Len(tracked) THEN {}
    ELSE {tracked[i + 1].name_} \cup
         ReapExamined(IF tracked[i + 1].death_ # -1 THEN Erase(tracked, i) ELSE tracked,
                      IF tracked[i + 1].death_ # -1 THEN i ELSE i + 1)

\* The names of the Waves that the outer while loop of RemoveDuplicateWaves,
\* from index i, takes as waves[i]: the Waves whose left_y it tests against
\* the search ROIs of the Waves behind them.
RECURSIVE DedupExamined(_, _)
DedupExamined(waves, i) ==
    IF i = Len(waves) THEN {}
    ELSE {waves[i + 1].name_} \cup
         DedupExamined(RemoveDuplicateInner(waves, i, LeftY(waves[i + 1]), i + 1)[1],
                       IF RemoveDuplicateInner(waves, i, LeftY(waves[i + 1]), i + 1)[2]
                            = Len(RemoveDuplicateInner(waves, i, LeftY(waves[i + 1]), i + 1)[1])
                       THEN i + 1 ELSE i)

\* C39, for the loops of RemoveDeadWaves and RemoveDuplicateWaves: the loop
\* ends, and every Wave that is in the vector when it ends was examined by
\* the test of the loop: by "death_ != -1" in RemoveDeadWaves, and as
\* waves[i], the Wave that may be erased, in RemoveDuplicateWaves, whatever
\* the first sort made of the vector.
C39_EveryRemainingElementExamined ==
    /\ pc = "dedup" =>
          \A w \in Range(RemoveDeadWaves(before[1], before[2], 0)[1]) :
              w.name_ \in ReapExamined(before[1], 0)
    /\ pc = "admit" =>
          \A s \in std_sort_CompareAgeDesc(before[1]) :
              \A w \in Range(RemoveDuplicateOuter(s, 0)) :
                  w.name_ \in DedupExamined(s, 0)

(***************************************************************************)
(* C40: the lengths of the two histories (SpecHistory).                    *)
(***************************************************************************)
\* The number of update cycles the Wave has gone through: one for each
\* frame after its birth.
Cycles(w) == frame_number - 1 - w.birth_

\* C40: after k update cycles, k >= 0, centroid_vec_ has
\* min(kTrackingHistory, k + 1) entries and displacement_vec_ has
\* min(kTrackingHistory, k): the constructor pushes the centroid of the
\* birth and no displacement.  The last entry of centroid_vec_ is centroid_
\* and, for k >= 1, the last entry of displacement_vec_ is displacement_.
C40_HistoryLengths ==
    \A i \in 1..Len(tracked_waves) :
        /\ Cycles(tracked_waves[i]) >= 0
        /\ Len(tracked_waves[i].centroid_vec_) =
              Min({kTrackingHistory, Cycles(tracked_waves[i]) + 1})
        /\ Len(tracked_waves[i].displacement_vec_) =
              Min({kTrackingHistory, Cycles(tracked_waves[i])})
        /\ tracked_waves[i].centroid_vec_[Len(tracked_waves[i].centroid_vec_)] =
              tracked_waves[i].centroid_
        /\ Cycles(tracked_waves[i]) >= 1 =>
              tracked_waves[i].displacement_vec_[Len(tracked_waves[i].displacement_vec_)] =
                  tracked_waves[i].displacement_

\* After kTrackingHistory - 1 cycles centroid_vec_ is full and
\* displacement_vec_ is one entry short; the Wave has lost its pixels in the
\* last cycle, and its history still begins with the centroid of its birth.
C40_Witness ==
    /\ Len(tracked_waves) = 1
    /\ Cycles(tracked_waves[1]) = kTrackingHistory - 1
    /\ Len(tracked_waves[1].centroid_vec_) = kTrackingHistory
    /\ Len(tracked_waves[1].displacement_vec_) = kTrackingHistory - 1
    /\ tracked_waves[1].centroid_ = <<-1, -1>>
    /\ tracked_waves[1].centroid_vec_[kTrackingHistory - 1] # <<-1, -1>>
    /\ tracked_waves[1].centroid_vec_[1] # <<-1, -1>>

====
